---- MODULE Spec2Model ----
(***************************************************************************)
(* State-machine model of the event-ingestion side of the repository:      *)
(*   - TokenProcessingClient (plugin-supabase/src/clients/                 *)
(*     tokenProcessingClient.ts): the per-key in-flight guard and the      *)
(*     asynchronous handler processTokenUpdate;                            *)
(*   - TokenUpdateClient and SupabaseClientWrapper (plugin-supabase/src/   *)
(*     clients/realtimeClient.ts): the websocket client with heartbeat,    *)
(*     reconnect timer, message filter, and the start/stop wrapper;        *)
(*   - TwitterInteractionClient (client-twitter/src/index.ts): the         *)
(*     conversation-thread walk buildConversationThread and the reply      *)
(*     decision handleTweet.                                               *)
(* JavaScript runs one synchronous segment at a time; every action below   *)
(* is one such segment (a call up to its first await, a continuation       *)
(* after an await settles, a timer callback, a socket event handler).      *)
(***************************************************************************)
EXTENDS Integers, Sequences, FiniteSets, TLC

(***************************************************************************)
(* Bounds of the model.                                                    *)
(***************************************************************************)
\* number of processTokenUpdate invocations that may be outstanding at once
MaxCalls == 2

Calls == 1..MaxCalls

\* number of websocket objects that may be alive (not yet closed) at once
MaxSockets == 2

Sockets == 1..MaxSockets

\* number of timer handles of one kind (setTimeout / setInterval) that may be pending
MaxTimers == 2

TimerIds == 1..MaxTimers

\* number of start() calls counted between two stop() calls
MaxStarts == 2

\* largest maxReplies argument passed to buildConversationThread
MaxReplies == 5

\* runs of one loop body that are suspended at the same time
MaxRuns == 2

\* calls of onReady on the post client
MaxReady == 2

(***************************************************************************)
(* Values.                                                                 *)
(***************************************************************************)
\* JavaScript undefined (an absent field)
Undefined == "undefined"

TokenIds == {"t1", "t2"}

\* what update.record.token_id may hold: a real id, the empty string, or nothing
TokenIdValues == TokenIds \cup {"", Undefined}

\* the argument of processTokenUpdate: an update with or without a record
Updates ==
    {[hasRecord |-> FALSE, token_id |-> Undefined]}
        \cup {[hasRecord |-> TRUE, token_id |-> v] : v \in TokenIdValues}

\* JavaScript null in this.ws, this.heartbeatInterval, this.reconnectTimeout
\* (sockets and handles are numbered from 1)
Null == 0

\* an inbound websocket frame, by what the onmessage handler reads of it:
\*   parses    JSON.parse(event.data) succeeds and yields an object
\*   event     data.event
\*   hasData   data.payload?.data is truthy
\*   type      change.type
\*   hasRecord change.record is present
\*   stage     change.record.processing_stage
\* Fields the handler cannot reach (behind an absent parent) are held at a default.
Messages ==
    {m \in [parses : BOOLEAN, event : {"postgres_changes", "phx_reply"},
            hasData : BOOLEAN, type : {"UPDATE", "INSERT"},
            hasRecord : BOOLEAN, stage : {"completed", "pending", Undefined}] :
        /\ (~m.parses => m.event = "phx_reply")
        /\ (m.event # "postgres_changes" => ~m.hasData)
        /\ (~m.hasData => m.type = "INSERT" /\ ~m.hasRecord)
        /\ (~m.hasRecord => m.stage = Undefined)}

\* no frame handled yet
NoMessage ==
    [parses |-> FALSE, event |-> "none", hasData |-> FALSE, type |-> "INSERT",
     hasRecord |-> FALSE, stage |-> Undefined]

RequiredFields == {"summary", "metrics", "insights", "patterns"}

\* what generateText resolves with: text that JSON.parse accepts or not, and the
\* required fields that are present (truthy) in the parsed object
Responses == [json : BOOLEAN, fields : SUBSET RequiredFields]

ProcessingEvents == {"processingComplete", "processingError"}

\* the awaits of processTokenUpdate, in program order
AwaitPoints ==
    <<"ensureRoomExists", "ensureParticipantInRoom", "composeState",
      "generateText", "createMemory">>

AwaitSet == {AwaitPoints[i] : i \in 1..Len(AwaitPoints)}

\* the posts that exist on the platform, by id
Tweets == {"A", "B", "C"}

\* tweet.inReplyToStatusId of a post that is not a reply
NoTweet == Undefined

\* the reply graphs: inReplyToStatusId of every post (any shape, cycles included)
ReplyGraphs == [Tweets -> Tweets \cup {NoTweet}]

\* where a buildConversationThread call is: not called, suspended at one of its
\* awaits, or ended by returning the thread or by rejecting
ThreadAwaits == {"getMemoryById", "ensureConnection", "getTweet"}

\* message.content.text of the handled post
Texts == {"", "gm", "stop", "STOP", "pls Stop now"}

\* String.prototype.toLowerCase on the texts above
ToLowerCase ==
    [x \in Texts |->
        CASE x = "STOP" -> "stop"
          [] x = "pls Stop now" -> "pls stop now"
          [] OTHER -> x]

\* what handleTweet reads of its argument:
\*   fromAgent     tweet.username === TWITTER_USERNAME
\*   hasParent     tweet.inReplyToStatusId is present
\*   threadLength  thread.length (0, 1, or more: 2)
\*   inBotThread   some post of thread is by the agent and is the parent or
\*                 the conversation root of tweet (lines 259-262)
\*   agentAncestor some post of thread before the leaf is by the agent (at
\*                 any position: parent, root, or in between)
\*   text          message.content.text
\*   cached        tweetcache/home_timeline.json exists (line 291)
HandleInputs ==
    {i \in [fromAgent : BOOLEAN, hasParent : BOOLEAN, threadLength : {0, 1, 2},
            inBotThread : BOOLEAN, agentAncestor : BOOLEAN, text : Texts,
            cached : BOOLEAN] :
        /\ i.inBotThread => i.threadLength >= 1
        /\ i.agentAncestor => i.threadLength = 2
        /\ i.inBotThread => (i.agentAncestor \/ i.fromAgent)}

\* no handleTweet call yet
NoHandleInput ==
    [fromAgent |-> FALSE, hasParent |-> FALSE, threadLength |-> 0,
     inBotThread |-> FALSE, agentAncestor |-> FALSE, text |-> "none",
     cached |-> FALSE]

\* what generateShouldRespond resolves with: one of its three tokens, null, or
\* (the type does not exclude it) some other string
Verdicts == {"RESPOND", "IGNORE", "STOP", "null", "respond", ""}

\* response.text as generateMessageResponse resolves it
ResponseTexts == {"", "ok", "'ok'", "''"}

\* removeQuotes (lines 408-409): one pair of enclosing quotes is stripped
RemoveQuotes ==
    [x \in ResponseTexts |->
        CASE x = "'ok'" -> "ok"
          [] x = "''" -> ""
          [] OTHER -> x]

\* the awaits of handleTweet before its try block, in program order
AwaitsBeforeTry ==
    <<"fetchHomeTimeline", "composeState", "getMemoryById",
      "generateShouldRespond", "generateMessageResponse">>

\* the awaits of handleTweet inside its try block (lines 418-467), in program order
AwaitsInTry ==
    <<"sendTweet", "updateRecentMessageState", "createMemory", "evaluate",
      "processActions", "wait">>

\* the secondary actions of the timeline loop, in the order post.ts runs them
SecondaryActions == <<"like", "retweet", "quote", "reply">>

\* what a tag of the action response holds: the boolean true or false, or nothing
TagValues == {"true", "false", Undefined}

\* what generateTweetActions resolves with when it parsed a response
ActionResponses ==
    [like : TagValues, retweet : TagValues, quote : TagValues, reply : TagValues]

\* generateTweetActions resolved with null
NoActionResponse ==
    [like |-> "null", retweet |-> "null", quote |-> "null", reply |-> "null"]

\* response.status of a sent quote or reply
Statuses == {200, 403}

\* where the handling of one timeline post is suspended, per secondary action
ActionAwaits ==
    [like |-> <<"likeTweet">>,
     retweet |-> <<"retweet">>,
     quote |-> <<"quoteContent", "sendQuoteTweet", "quoteResponse">>,
     reply |-> <<"replyContent", "sendTweet", "replyResponse">>]


\* this.MIN_PROCESS_INTERVAL (15 * 60 * 1000 ms); times are in minutes
MIN_PROCESS_INTERVAL == 15

\* initialTimelineDelay (1 * 60 * 1000 ms), in minutes
initialTimelineDelay == 1

\* Math.random() yields r / RandomScale for an r of Randoms: 0.00 or 0.99
RandomScale == 100

Randoms == {0, RandomScale - 1}

\* variant: the product is rounded up
RandomMinutesCeil(r, span, base) ==
    ((r * span + RandomScale - 1) \div RandomScale) + base

\* Math.floor(Math.random() * span) + base
RandomMinutes(r, span, base) == ((r * span) \div RandomScale) + base

\* line 394: the delays the timeline loop is re-armed with, in minutes
TimelineDelays == {RandomMinutes(r, 30 - 15 + 1, 15) : r \in Randoms}

\* the scheduled loops of the post client
PostLoops == {"posting", "timeline"}

\* the scheduled loops of the search and the interaction client
EngageLoops == {"search", "interaction"}

\* the scheduled loops
Loops == PostLoops \cup EngageLoops

VARIABLES
    \* ---- TokenProcessingClient
    processingTokens,   \* this.processingTokens : Set<string>
    pc,                 \* per invocation: "idle", the await it is suspended at, or "returned"
    tokenId,            \* per invocation: const tokenId (Undefined before line 82)
    admitted,           \* per invocation: passed the guard and ran processingTokens.add
    emitted,            \* per invocation: the events it passed to this.emit, in order
    llmCalls,           \* per invocation: calls of generateText
    memWrites,          \* per invocation: calls of messageManager.createMemory
    stepFailed,         \* per invocation: some awaited step or the parse threw
    outcome,            \* per invocation: "pending", "resolved" or "rejected" (the promise)
    throwingListeners,  \* events for which a registered listener throws
    \* ---- TokenUpdateClient
    ws,                 \* this.ws : a socket or Null
    sock,               \* readyState of every socket object: "NONE" (not created),
                        \* "CONNECTING", "OPEN", "CLOSING", "CLOSED"
    isConnected,        \* this.isConnected
    heartbeatInterval,  \* this.heartbeatInterval : a handle or Null
    intervals,          \* the setInterval handles that are armed
    reconnectTimeout,   \* this.reconnectTimeout : a handle or Null (stale once fired)
    timeouts,           \* the setTimeout handles that are pending
    joined,             \* sockets on which the phx_join subscription was sent
    lastMsg,            \* the frame the last onmessage call handled, or NoMessage
    forwarded,          \* the last onmessage call emitted tokenUpdate
    hb,                 \* the last heartbeat callback: "none", "sent", "skipped", "threw"
    urlValid,           \* new URL(...) / new WebSocket(...) accept the configured url
    \* ---- SupabaseClientWrapper
    initialized,        \* this.initialized
    starts,             \* start() calls since the last stop()
    connectsFromStart,  \* connect() calls made by start() since the last stop()
    \* ---- TwitterInteractionClient.buildConversationThread
    at,                 \* "idle", the await the call is suspended at, "returned", "rejected"
    tweet,              \* the argument tweet (the leaf), by id
    maxReplies,         \* the argument maxReplies
    inReplyToStatusId,  \* the reply graph the platform holds during the call
    recorded,           \* posts the message manager has a memory of when the call starts
    thread,             \* const thread : Tweet[]
    visited,            \* const visited : Set<string>
    currentTweet,       \* processThread's currentTweet
    depth,              \* processThread's depth
    thisArg,            \* `this` inside the running processThread: "client" or Undefined
    fetchAttempts,      \* calls of twitterClient.getTweet
    fetchedParents,     \* the posts getTweet resolved with, in fetch order
    fetchFailure,       \* how a getTweet call failed: "none", "nothing" (resolved
                        \* with no post) or "threw"
    lookedUp,           \* posts whose memory was looked up with getMemoryById
    created,            \* posts for which messageManager.createMemory was called, in order
    \* ---- TwitterInteractionClient.handleTweet
    handling,           \* the argument of the handleTweet call, or NoHandleInput
    hAt,                \* "idle", the await the call is suspended at, or "returned"
    hOutcome,           \* how the call ended: "pending", "skipped", "ignored", "declined",
                        \* "noText", "replied", "sendFailed" (caught), "rejected"
    verdict,            \* what generateShouldRespond resolved with, or "none"
    shouldRespondCalls, \* calls of generateShouldRespond
    generated,          \* calls of generateMessageResponse
    sentTweets,         \* calls of sendTweet
    savedRequest,       \* saveRequestMessage was called (line 364)
    \* ---- TwitterPostClient.processTweetActions, one timeline post
    pAt,                \* "idle", the await the iteration is suspended at, or "done"
    actionResponse,     \* const actionResponse, or NoActionResponse
    executedActions,    \* const executedActions : string[]
    wireCalls,          \* the calls the iteration made on this.twitterClient, in order
    results,            \* what the iteration pushed on results
    pOutcome,           \* how the iteration ended: "pending", "known" (has a memory),
                        \* "noActions", "processed", "failed" (caught at 540 or 545)
    handledRecord,      \* the message manager has the memory of the post that
                        \* saveIncomingTweetToMemory creates
    actedBefore,        \* an earlier cycle executed an action on the post
    \* ---- TwitterPostClient: the posting loop and the timeline loop
    tweetLoopTimeout,   \* this.tweetLoopTimeout: "null" or "pending" (a timer that
                        \* fired has re-armed before its callback ends)
    tweetRuns,          \* calls of generateNewTweet that are suspended at an await
    unhandledRejections,\* the loops whose body returned a promise that was rejected
                        \* while nothing awaits or catches it
    timelineLoopTimeout,\* this.timelineLoopTimeout: "null", "pending" (the last of
                        \* timelineTimers) or "fired"
    timelineTimers,     \* minutes left of the pending timeline timers, oldest first
    isProcessing,       \* this.isProcessing
    admittedRuns,       \* executions of processTweetActions that passed the check of
                        \* line 404 and have not got to their end
    timeSinceLastProcess, \* Date.now() - this.lastProcessTime in minutes, up to
                        \* MIN_PROCESS_INTERVAL (that much or more)
    timeSinceLastDone,  \* minutes since processTweetActions last returned, up to
                        \* MIN_PROCESS_INTERVAL (that much or more, or never)
    readyCalls,         \* calls of onReady so far
    stalled,            \* the loop one of whose suspended runs never settles, or "none"
    \* ---- TwitterSearchClient and TwitterInteractionClient: their loops
    searchTimers,       \* pending timers of startEngagementLoop
    isSearchTurn,       \* this.isSearchTurn
    searchTermRuns,     \* calls of engage suspended in engageWithSearchTerms
    followedRuns,       \* calls of engage suspended in engageWithFollowedAccounts
    interactionTimers,  \* pending timers of handleTwitterInteractionsLoop
    interactionRuns,    \* calls of handleTwitterInteractions that are suspended
    \* ---- TwitterClientInterface
    stopCalled,         \* TwitterClientInterface.stop was called
    \* ---- the delays the loops are re-armed with, in minutes (Null: none chosen)
    randomMinutes,      \* const randomMinutes of generateNewTweetLoop
    randomTimelineMinutes, \* const randomTimelineMinutes of generateNewTimelineTweetLoop
    interactionMinutes, \* the minutes handleTwitterInteractionsLoop passes to setTimeout
    \* ---- truncateToCompleteSentence
    text,               \* the argument text of the last call, as a sequence of characters
    truncated,          \* what the last call returned
    \* ---- TwitterInteractionClient.handleTwitterInteractions, one candidate post
    lastCheckedTweetId, \* this.lastCheckedTweetId : an id, or Null
    cycleAt,            \* per polling cycle: "idle" (not started), the await the
                        \* cycle is suspended at, or "done"
    replies,            \* replies sent to the candidate post
    \* ---- TwitterSearchClient: engageWithSearchTerms and engageWithFollowedAccounts
    respondedTweets,    \* this.respondedTweets : Set<string>
    engageAt,           \* where the engagement run is: "idle", "selecting" (the
                        \* awaits before a post is selected), "responding" (those
                        \* before the reply is sent), "sendTweet", "afterSend", "done"
    selectedTweet,      \* const selectedTweet of the run, or NoTweet
    engageReplies       \* per post: replies the search client sent to it

tpVars ==
    <<processingTokens, pc, tokenId, admitted, emitted, llmCalls, memWrites,
      stepFailed, outcome, throwingListeners>>

rtVars ==
    <<ws, sock, isConnected, heartbeatInterval, intervals, reconnectTimeout,
      timeouts, joined, lastMsg, forwarded, hb, urlValid, initialized, starts,
      connectsFromStart>>

btVars ==
    <<at, tweet, maxReplies, inReplyToStatusId, recorded, thread, visited,
      currentTweet, depth, thisArg, fetchAttempts, fetchedParents, fetchFailure,
      lookedUp, created>>

htVars ==
    <<handling, hAt, hOutcome, verdict, shouldRespondCalls, generated, sentTweets,
      savedRequest>>

paVars ==
    <<pAt, actionResponse, executedActions, wireCalls, results, pOutcome,
      handledRecord, actedBefore>>

lpVars ==
    <<tweetLoopTimeout, tweetRuns, unhandledRejections, timelineLoopTimeout,
      timelineTimers, isProcessing, admittedRuns, timeSinceLastProcess,
      timeSinceLastDone, readyCalls, stalled>>

\* the variables of the post client
postVars == <<paVars, lpVars>>

\* the variables of the loops of the search and the interaction client
egVars ==
    <<searchTimers, isSearchTurn, searchTermRuns, followedRuns, interactionTimers,
      interactionRuns>>

ifVars == <<stopCalled>>

rdVars == <<randomMinutes, randomTimelineMinutes, interactionMinutes>>

\* the variables of the client interface, of the delays, of the truncation and
\* of the two reply pipelines
trVars == <<text, truncated>>

ixVars == <<lastCheckedTweetId, cycleAt, replies>>

seVars == <<respondedTweets, engageAt, selectedTweet, engageReplies>>

xtVars == <<ifVars, rdVars, trVars, ixVars, seVars>>

\* the variables of the Twitter client
twVars == <<btVars, htVars, postVars, egVars, xtVars>>

vars == <<tpVars, rtVars, twVars>>

(***************************************************************************)
(* TokenProcessingClient                                                   *)
(***************************************************************************)

\* invocation c is suspended at an await inside the try block
InFlight(c) == pc[c] \in AwaitSet

\* variant: only the record is tested, not its token_id
MissingTokenIdRecordOnly(u) == ~u.hasRecord

\* line 77: !update?.record?.token_id
MissingTokenId(u) == ~u.hasRecord \/ u.token_id = Undefined \/ u.token_id = ""

\* variant: the guard test is skipped
AlreadyProcessingNever(k) == FALSE

\* line 88: this.processingTokens.has(tokenId)
AlreadyProcessing(k) == k \in processingTokens

\* variant: the rejected delivery returns from inside the try block, so finally runs
GuardAfterRejectReleases(k) == processingTokens \ {k}

\* lines 88-91: the rejected delivery returns before the try block, guard untouched
GuardAfterReject(k) == processingTokens

\* line 93: this.processingTokens.add(tokenId)
GuardAfterAdd(k) == processingTokens \cup {k}

\* variant: the finally block does not release the key
GuardAfterFinallyLeaks(k) == processingTokens

\* line 206 (finally): this.processingTokens.delete(tokenId)
GuardAfterFinally(k) == processingTokens \ {k}

\* variant: the parsed response is not validated
ValidAnalysisJsonOnly(r) == r.json

\* lines 141-148: the response parses and carries every required field
ValidAnalysis(r) == r.json /\ r.fields = RequiredFields

\* EventEmitter.emit: a throwing listener makes emit throw
EmitThrows(e) == e \in throwingListeners

InitTP ==
    /\ processingTokens = {}
    /\ pc = [c \in Calls |-> "idle"]
    /\ tokenId = [c \in Calls |-> Undefined]
    /\ admitted = [c \in Calls |-> FALSE]
    /\ emitted = [c \in Calls |-> <<>>]
    /\ llmCalls = [c \in Calls |-> 0]
    /\ memWrites = [c \in Calls |-> 0]
    /\ stepFailed = [c \in Calls |-> FALSE]
    /\ outcome = [c \in Calls |-> "pending"]
    /\ throwingListeners \in SUBSET ProcessingEvents

\* lines 76-101: the synchronous prefix of processTokenUpdate(update), up to the
\* first await. Slot c holds an invocation that has not started or has returned.
ProcessTokenUpdate(c, u) ==
    /\ pc[c] \in {"idle", "returned"}
    /\ emitted' = [emitted EXCEPT ![c] = <<>>]
    /\ llmCalls' = [llmCalls EXCEPT ![c] = 0]
    /\ memWrites' = [memWrites EXCEPT ![c] = 0]
    /\ stepFailed' = [stepFailed EXCEPT ![c] = FALSE]
    /\ UNCHANGED <<rtVars, twVars>>
    /\ IF MissingTokenId(u)
       THEN /\ tokenId' = [tokenId EXCEPT ![c] = Undefined]
            /\ admitted' = [admitted EXCEPT ![c] = FALSE]
            /\ pc' = [pc EXCEPT ![c] = "returned"]
            /\ outcome' = [outcome EXCEPT ![c] = "resolved"]
            /\ UNCHANGED processingTokens
       ELSE /\ tokenId' = [tokenId EXCEPT ![c] = u.token_id]
            /\ IF AlreadyProcessing(u.token_id)
               THEN /\ admitted' = [admitted EXCEPT ![c] = FALSE]
                    /\ pc' = [pc EXCEPT ![c] = "returned"]
                    /\ outcome' = [outcome EXCEPT ![c] = "resolved"]
                    /\ processingTokens' = GuardAfterReject(u.token_id)
               ELSE /\ admitted' = [admitted EXCEPT ![c] = TRUE]
                    /\ pc' = [pc EXCEPT ![c] = "ensureRoomExists"]
                    /\ outcome' = [outcome EXCEPT ![c] = "pending"]
                    /\ processingTokens' = GuardAfterAdd(u.token_id)
    /\ UNCHANGED throwingListeners

\* lines 192-207: catch (log, emit processingError) then finally. A throwing
\* processingError listener propagates out of the catch block: the promise rejects.
CatchAndFinally(c, emittedSoFar) ==
    /\ emitted' = [emitted EXCEPT ![c] = Append(emittedSoFar, "processingError")]
    /\ processingTokens' = GuardAfterFinally(tokenId[c])
    /\ pc' = [pc EXCEPT ![c] = "returned"]
    /\ outcome' = [outcome EXCEPT ![c] =
                      IF EmitThrows("processingError") THEN "rejected" ELSE "resolved"]

\* an awaited call rejects (or throws): control goes to catch, then finally
AwaitRejects(c) ==
    /\ InFlight(c)
    /\ UNCHANGED <<rtVars, twVars>>
    /\ stepFailed' = [stepFailed EXCEPT ![c] = TRUE]
    /\ CatchAndFinally(c, emitted[c])
    /\ UNCHANGED <<tokenId, admitted, llmCalls, memWrites, throwingListeners>>

\* lines 100-130: ensureRoomExists, ensureParticipantInRoom, composeState resolve;
\* the handler runs on to the next await (after composeState: generateText)
AwaitResolves(c) ==
    /\ pc[c] \in {"ensureRoomExists", "ensureParticipantInRoom", "composeState"}
    /\ UNCHANGED <<rtVars, twVars>>
    /\ pc' = [pc EXCEPT ![c] =
                 CASE pc[c] = "ensureRoomExists" -> "ensureParticipantInRoom"
                   [] pc[c] = "ensureParticipantInRoom" -> "composeState"
                   [] pc[c] = "composeState" -> "generateText"]
    /\ llmCalls' = [llmCalls EXCEPT ![c] =
                       IF pc[c] = "composeState" THEN @ + 1 ELSE @]
    /\ UNCHANGED <<processingTokens, tokenId, admitted, emitted, memWrites,
                   stepFailed, outcome, throwingListeners>>

\* lines 130-177: generateText resolves with response r; parse and validate; on a
\* valid analysis call createMemory, otherwise throw into the outer catch
GenerateTextResolves(c, r) ==
    /\ pc[c] = "generateText"
    /\ UNCHANGED <<rtVars, twVars>>
    /\ IF ValidAnalysis(r)
       THEN /\ pc' = [pc EXCEPT ![c] = "createMemory"]
            /\ memWrites' = [memWrites EXCEPT ![c] = @ + 1]
            /\ UNCHANGED <<processingTokens, emitted, stepFailed, outcome>>
       ELSE /\ stepFailed' = [stepFailed EXCEPT ![c] = TRUE]
            /\ CatchAndFinally(c, emitted[c])
            /\ UNCHANGED memWrites
    /\ UNCHANGED <<tokenId, admitted, llmCalls, throwingListeners>>

\* lines 158-207: createMemory resolves; emit processingComplete inside the try
\* block (a throwing listener lands in catch), then finally
CreateMemoryResolves(c) ==
    /\ pc[c] = "createMemory"
    /\ UNCHANGED <<rtVars, twVars>>
    /\ IF EmitThrows("processingComplete")
       THEN CatchAndFinally(c, Append(emitted[c], "processingComplete"))
       ELSE /\ emitted' = [emitted EXCEPT ![c] = Append(@, "processingComplete")]
            /\ processingTokens' = GuardAfterFinally(tokenId[c])
            /\ pc' = [pc EXCEPT ![c] = "returned"]
            /\ outcome' = [outcome EXCEPT ![c] = "resolved"]
    /\ UNCHANGED <<tokenId, admitted, llmCalls, memWrites, stepFailed,
                   throwingListeners>>

NextTP ==
    \/ \E c \in Calls, u \in Updates : ProcessTokenUpdate(c, u)
    \/ \E c \in Calls : AwaitRejects(c)
    \/ \E c \in Calls : AwaitResolves(c)
    \/ \E c \in Calls, r \in Responses : GenerateTextResolves(c, r)
    \/ \E c \in Calls : CreateMemoryResolves(c)

(***************************************************************************)
(* TokenUpdateClient                                                       *)
(***************************************************************************)

\* the lowest handle (or socket) number not in `used`
LowestFree(ids, used) == CHOOSE t \in ids \ used : \A u \in ids \ used : t <= u

\* socket objects that are no longer (or not yet) alive: their number can be reused
FreeSockets == {s \in Sockets : sock[s] \in {"NONE", "CLOSED"}}

\* line 48: if (this.isConnected) return
AlreadyConnected == isConnected

\* lines 53-59: new URL(...) or new WebSocket(...) throws on a url they reject
ConnectThrows == ~AlreadyConnected /\ ~urlValid

\* variant: start() does not test the flag
AlreadyInitializedNever == FALSE

\* line 213: if (this.initialized) return
AlreadyInitialized == initialized

\* lines 33-38: clearHeartbeat, the armed intervals after it
IntervalsAfterClearHeartbeat == intervals \ {heartbeatInterval}

\* variant: the previous reconnect timer is not cleared
TimeoutsAfterClearReconnectKept == timeouts

\* lines 40-45: clearReconnectTimeout, the pending timeouts after it
TimeoutsAfterClearReconnect == timeouts \ {reconnectTimeout}

\* lines 47-127: the body of connect(): return when connected, otherwise create
\* the socket and attach its handlers (the handlers are the Socket* actions)
Connect ==
    IF AlreadyConnected \/ ConnectThrows
    THEN UNCHANGED <<ws, sock, joined>>
    ELSE LET s == LowestFree(Sockets, Sockets \ FreeSockets)
         IN  /\ ws' = s
             /\ sock' = [sock EXCEPT ![s] = "CONNECTING"]
             /\ joined' = joined \ {s}

\* connect() can run within the model's socket bound
CanConnect == AlreadyConnected \/ ConnectThrows \/ FreeSockets # {}

\* lines 74-89 with the catch of line 105: does onmessage reach this.emit
RecordStage(m) == IF m.hasRecord THEN m.stage ELSE Undefined

\* variant: the processing_stage test is missing
OnMessageEmitsAnyStage(m) ==
    m.parses /\ m.event = "postgres_changes" /\ m.hasData /\ m.type = "UPDATE"

OnMessageEmits(m) ==
    IF ~m.parses
    THEN FALSE
    ELSE IF m.event = "postgres_changes"
         THEN IF ~m.hasData
              THEN FALSE
              ELSE m.type = "UPDATE" /\ RecordStage(m) = "completed"
         ELSE FALSE

InitRT ==
    /\ ws = Null
    /\ sock = [s \in Sockets |-> "NONE"]
    /\ isConnected = FALSE
    /\ heartbeatInterval = Null
    /\ intervals = {}
    /\ reconnectTimeout = Null
    /\ timeouts = {}
    /\ joined = {}
    /\ lastMsg = NoMessage
    /\ forwarded = FALSE
    /\ hb = "none"
    /\ urlValid \in BOOLEAN
    /\ initialized = FALSE
    /\ starts = 0
    /\ connectsFromStart = 0

\* tokenProvider.get (tokenProvider.ts 11-19) -> getInstance -> start()
\* (realtimeClient.ts 212-221). When connect() throws, start() rejects before
\* line 219 and the provider catches it.
Start ==
    /\ starts < MaxStarts
    /\ starts' = starts + 1
    /\ IF AlreadyInitialized
       THEN UNCHANGED <<ws, sock, joined, initialized, connectsFromStart>>
       ELSE /\ CanConnect
            /\ Connect
            /\ connectsFromStart' = connectsFromStart + 1
            /\ initialized' = ~ConnectThrows
    /\ UNCHANGED <<isConnected, heartbeatInterval, intervals, reconnectTimeout,
                   timeouts, lastMsg, forwarded, hb, urlValid>>
    /\ UNCHANGED <<tpVars, twVars>>

\* stop() (223-227) -> disconnect() (159-168)
Stop ==
    /\ intervals' = IntervalsAfterClearHeartbeat
    /\ heartbeatInterval' = Null
    /\ timeouts' = TimeoutsAfterClearReconnect
    /\ reconnectTimeout' = Null
    /\ sock' = IF ws # Null /\ sock[ws] \in {"CONNECTING", "OPEN"}
               THEN [sock EXCEPT ![ws] = "CLOSING"]
               ELSE sock
    /\ ws' = Null
    /\ isConnected' = FALSE
    /\ initialized' = FALSE
    /\ starts' = 0
    /\ connectsFromStart' = 0
    /\ UNCHANGED <<joined, lastMsg, forwarded, hb, urlValid>>
    /\ UNCHANGED <<tpVars, twVars>>

\* line 121: the reconnect timer fires and calls connect()
TimerFire(t) ==
    /\ t \in timeouts
    /\ CanConnect
    /\ timeouts' = timeouts \ {t}
    /\ Connect
    /\ UNCHANGED <<isConnected, heartbeatInterval, intervals, reconnectTimeout,
                   lastMsg, forwarded, hb, urlValid, initialized, starts,
                   connectsFromStart>>
    /\ UNCHANGED <<tpVars, twVars>>

\* lines 61-67: socket s opens; onopen runs setupHeartbeat (21-31) and
\* subscribeToUpdates (129-157), whose send may throw and is caught
SocketOpen(s, sendOk) ==
    /\ sock[s] = "CONNECTING"
    /\ sock' = [sock EXCEPT ![s] = "OPEN"]
    /\ isConnected' = TRUE
    /\ LET cleared == IF heartbeatInterval # Null
                      THEN intervals \ {heartbeatInterval}
                      ELSE intervals
       IN  /\ cleared # TimerIds
           /\ heartbeatInterval' = LowestFree(TimerIds, cleared)
           /\ intervals' = cleared \cup {LowestFree(TimerIds, cleared)}
    /\ joined' = IF ws # Null /\ sock'[ws] = "OPEN" /\ sendOk
                 THEN joined \cup {ws}
                 ELSE joined
    /\ UNCHANGED <<ws, reconnectTimeout, timeouts, lastMsg, forwarded, hb,
                   urlValid, initialized, starts, connectsFromStart>>
    /\ UNCHANGED <<tpVars, twVars>>

\* lines 124-126: an error on socket s (failed handshake, broken connection);
\* onerror only logs, the socket goes on to close
SocketError(s) ==
    /\ sock[s] \in {"CONNECTING", "OPEN"}
    /\ sock' = [sock EXCEPT ![s] = "CLOSING"]
    /\ UNCHANGED <<ws, isConnected, heartbeatInterval, intervals, reconnectTimeout,
                   timeouts, joined, lastMsg, forwarded, hb, urlValid,
                   initialized, starts, connectsFromStart>>
    /\ UNCHANGED <<tpVars, twVars>>

\* lines 113-122: the close event of socket s; onclose clears the heartbeat and
\* schedules a reconnect
SocketClose(s) ==
    /\ sock[s] \in {"OPEN", "CLOSING"}
    /\ sock' = [sock EXCEPT ![s] = "CLOSED"]
    /\ isConnected' = FALSE
    /\ intervals' = IntervalsAfterClearHeartbeat
    /\ heartbeatInterval' = Null
    /\ LET cleared == TimeoutsAfterClearReconnect
       IN  /\ cleared # TimerIds
           /\ reconnectTimeout' = LowestFree(TimerIds, cleared)
           /\ timeouts' = cleared \cup {LowestFree(TimerIds, cleared)}
    /\ UNCHANGED <<ws, joined, lastMsg, forwarded, hb, urlValid, initialized,
                   starts, connectsFromStart>>
    /\ UNCHANGED <<tpVars, twVars>>

\* lines 69-111: a frame arrives on the open socket s
ReceiveMessage(s, m) ==
    /\ sock[s] = "OPEN"
    /\ lastMsg' = m
    /\ forwarded' = OnMessageEmits(m)
    /\ UNCHANGED <<ws, sock, isConnected, heartbeatInterval, intervals,
                   reconnectTimeout, timeouts, joined, hb, urlValid, initialized,
                   starts, connectsFromStart>>
    /\ UNCHANGED <<tpVars, twVars>>

\* lines 26-30: the heartbeat interval i fires; ws.send may throw, nothing catches it
HeartbeatTick(i, sendOk) ==
    /\ i \in intervals
    /\ hb' = IF ws # Null /\ sock[ws] = "OPEN"
             THEN IF sendOk THEN "sent" ELSE "threw"
             ELSE "skipped"
    /\ UNCHANGED <<ws, sock, isConnected, heartbeatInterval, intervals,
                   reconnectTimeout, timeouts, joined, lastMsg, forwarded,
                   urlValid, initialized, starts, connectsFromStart>>
    /\ UNCHANGED <<tpVars, twVars>>

\* the connection life cycle: wrapper calls, reconnect timer, socket events
NextConn ==
    \/ Start
    \/ Stop
    \/ \E t \in TimerIds : TimerFire(t)
    \/ \E s \in Sockets, sendOk \in BOOLEAN : SocketOpen(s, sendOk)
    \/ \E s \in Sockets : SocketError(s)
    \/ \E s \in Sockets : SocketClose(s)

\* ... with the heartbeat interval
NextRT ==
    \/ NextConn
    \/ \E i \in TimerIds, sendOk \in BOOLEAN : HeartbeatTick(i, sendOk)

\* ... with inbound frames
NextMsg ==
    \/ NextConn
    \/ \E s \in Sockets, m \in Messages : ReceiveMessage(s, m)

(***************************************************************************)
(* TwitterInteractionClient.buildConversationThread                        *)
(***************************************************************************)

\* line 588: processThread.bind(this)(tweet, 0) gives the first invocation the client
ThisOfFirstCall == "client"

\* line 569: processThread(parentTweet, depth + 1) is a plain call of a function
\* declaration inside a class body (strict code), so `this` is undefined in it
ThisOfRecursiveCall == Undefined

\* variant: the depth test is missing
DepthReachedNever(d, m) == FALSE

\* variant: the depth test uses > for >=
DepthReachedOffByOne(d, m) == d > m

\* line 490: depth >= maxReplies
DepthReached(d, m) == d >= m

\* line 496: this.runtime throws a TypeError when `this` is undefined
ThisRuntimeThrows(self) == self = Undefined

\* line 540: visited.has(currentTweet.id)
AlreadyVisited(t) == t \in visited

\* variant: the parent fetch is not wrapped in try/catch
ParentFetchErrorUncaught == FALSE

\* lines 559-581: the try/catch around getTweet and the recursive call
ParentFetchErrorCaught == TRUE

\* where control goes when something throws inside processThread at depth d:
\* the first invocation (line 588) is outside any try, so the promise of
\* buildConversationThread rejects; a recursive invocation is awaited inside
\* its caller's try (569), whose catch logs, after which every caller returns
ThrownAt(d) ==
    IF d = 0 THEN "rejected"
    ELSE IF ParentFetchErrorCaught THEN "returned" ELSE "rejected"

\* lines 478-498: processThread(t, d) with `this` = self, up to its first await
\* (m is maxReplies of the enclosing call, looked the posts looked up so far)
ProcessThread(t, d, self, looked, m) ==
    /\ currentTweet' = t
    /\ depth' = d
    /\ thisArg' = self
    /\ IF DepthReached(d, m)
       THEN at' = "returned" /\ lookedUp' = looked
       ELSE IF ThisRuntimeThrows(self)
            THEN at' = ThrownAt(d) /\ lookedUp' = looked
            ELSE at' = "getMemoryById" /\ lookedUp' = looked \cup {t}

\* lines 540-584: the visited test, the unshift, and the call of getTweet for
\* the parent id when there is one
VisitAndDescend ==
    IF AlreadyVisited(currentTweet)
    THEN at' = "returned" /\ UNCHANGED <<thread, visited, fetchAttempts>>
    ELSE /\ visited' = visited \cup {currentTweet}
         /\ thread' = <<currentTweet>> \o thread
         /\ IF inReplyToStatusId[currentTweet] # NoTweet
            THEN at' = "getTweet" /\ fetchAttempts' = fetchAttempts + 1
            ELSE at' = "returned" /\ UNCHANGED fetchAttempts

InitBT ==
    /\ at = "idle"
    /\ tweet = Undefined
    /\ maxReplies = 0
    /\ inReplyToStatusId = [t \in Tweets |-> NoTweet]
    /\ recorded = {}
    /\ thread = <<>>
    /\ visited = {}
    /\ currentTweet = Undefined
    /\ depth = 0
    /\ thisArg = Undefined
    /\ fetchAttempts = 0
    /\ fetchedParents = <<>>
    /\ fetchFailure = "none"
    /\ lookedUp = {}
    /\ created = <<>>

\* lines 471-498, 588: buildConversationThread(tweet = t, maxReplies = m) is
\* called while the platform holds reply graph g and the message manager has
\* memories of the posts in r; it runs up to the first await. thread and
\* visited are locals of the call, so calls share nothing: one call is modelled.
BuildConversationThread(t, m, g, r) ==
    /\ at = "idle"
    /\ tweet' = t
    /\ maxReplies' = m
    /\ inReplyToStatusId' = g
    /\ recorded' = r
    /\ thread' = <<>>
    /\ visited' = {}
    /\ fetchAttempts' = 0
    /\ fetchedParents' = <<>>
    /\ fetchFailure' = "none"
    /\ created' = <<>>
    /\ ProcessThread(t, 0, ThisOfFirstCall, {}, m)
    /\ UNCHANGED <<tpVars, rtVars, xtVars, htVars, postVars, egVars>>


\* line 496: getMemoryById resolves, with a memory (found) or without. A post
\* recorded before the call is found; one never recorded nor created is not;
\* one whose createMemory (not awaited, line 513) was issued may be either.
GetMemoryByIdResolves(found) ==
    /\ at = "getMemoryById"
    /\ currentTweet \in recorded => found
    /\ (currentTweet \notin recorded
          /\ \A i \in 1..Len(created) : created[i] # currentTweet) => ~found
    /\ IF found
       THEN VisitAndDescend
       ELSE at' = "ensureConnection" /\ UNCHANGED <<thread, visited, fetchAttempts>>
    /\ UNCHANGED <<tweet, maxReplies, inReplyToStatusId, recorded, currentTweet,
                   depth, thisArg, fetchedParents, fetchFailure, lookedUp, created>>
    /\ UNCHANGED <<tpVars, rtVars, xtVars, htVars, postVars, egVars>>

\* lines 505-584: ensureConnection resolves; createMemory is called (and not
\* awaited), then the walk goes on
EnsureConnectionResolves ==
    /\ at = "ensureConnection"
    /\ created' = Append(created, currentTweet)
    /\ VisitAndDescend
    /\ UNCHANGED <<tweet, maxReplies, inReplyToStatusId, recorded, currentTweet,
                   depth, thisArg, fetchedParents, fetchFailure, lookedUp>>
    /\ UNCHANGED <<tpVars, rtVars, xtVars, htVars, postVars, egVars>>

\* lines 496, 505: getMemoryById or ensureConnection rejects; neither is inside
\* processThread's own try block
MemoryCallRejects ==
    /\ at \in {"getMemoryById", "ensureConnection"}
    /\ at' = ThrownAt(depth)
    /\ UNCHANGED <<tweet, maxReplies, inReplyToStatusId, recorded, thread, visited,
                   currentTweet, depth, thisArg, fetchAttempts, fetchedParents,
                   fetchFailure, lookedUp, created>>
    /\ UNCHANGED <<tpVars, rtVars, xtVars, htVars, postVars, egVars>>

\* lines 560-569: getTweet resolves with the parent post; processThread is
\* called on it, one level deeper
GetTweetResolves ==
    /\ at = "getTweet"
    /\ fetchedParents' = Append(fetchedParents, inReplyToStatusId[currentTweet])
    /\ ProcessThread(inReplyToStatusId[currentTweet], depth + 1,
                     ThisOfRecursiveCall, lookedUp, maxReplies)
    /\ UNCHANGED <<tweet, maxReplies, inReplyToStatusId, recorded, thread, visited,
                   fetchAttempts, fetchFailure, created>>
    /\ UNCHANGED <<tpVars, rtVars, xtVars, htVars, postVars, egVars>>

\* lines 570-575: getTweet resolves with nothing
GetTweetResolvesNothing ==
    /\ at = "getTweet"
    /\ fetchFailure' = "nothing"
    /\ at' = "returned"
    /\ UNCHANGED <<tweet, maxReplies, inReplyToStatusId, recorded, thread, visited,
                   currentTweet, depth, thisArg, fetchAttempts, fetchedParents,
                   lookedUp, created>>
    /\ UNCHANGED <<tpVars, rtVars, xtVars, htVars, postVars, egVars>>

\* lines 576-581: getTweet rejects; the catch logs and processThread returns
GetTweetRejects ==
    /\ at = "getTweet"
    /\ fetchFailure' = "threw"
    /\ at' = IF ParentFetchErrorCaught THEN "returned" ELSE "rejected"
    /\ UNCHANGED <<tweet, maxReplies, inReplyToStatusId, recorded, thread, visited,
                   currentTweet, depth, thisArg, fetchAttempts, fetchedParents,
                   lookedUp, created>>
    /\ UNCHANGED <<tpVars, rtVars, xtVars, htVars, postVars, egVars>>

\* an await of the running call settles
ThreadContinues ==
    \/ \E found \in BOOLEAN : GetMemoryByIdResolves(found)
    \/ EnsureConnectionResolves
    \/ MemoryCallRejects
    \/ GetTweetResolves
    \/ GetTweetResolvesNothing
    \/ GetTweetRejects

NextBT ==
    \/ /\ at = "idle"
       /\ \E t \in Tweets, m \in 0..MaxReplies, g \in ReplyGraphs, r \in SUBSET Tweets :
             BuildConversationThread(t, m, g, r)
    \/ ThreadContinues

(***************************************************************************)
(* TwitterInteractionClient.handleTweet                                    *)
(***************************************************************************)

\* variant: the standalone test is missing
StandaloneOwnTweetNever(i) == FALSE

\* lines 265-267: the agent's own post, not a reply, alone in its thread
StandaloneOwnTweet(i) == i.fromAgent /\ ~i.hasParent /\ i.threadLength = 1

\* variant: the text is not lower-cased before the test
IncludesStopCaseSensitive(x) == x \in {"stop"}

\* line 376: message.content.text.toLowerCase().includes('stop')
IncludesStop(x) == ToLowerCase[x] \in {"stop", "pls stop now"}

\* variant: the response is never forced
ForcedRespondNever(i) == FALSE

\* line 376: the decision call is skipped in the agent's thread unless asked to stop
ForcedRespond(i) == i.inBotThread /\ ~IncludesStop(i.text)

\* variant: every verdict but IGNORE and STOP lets the reply through
VerdictIsRespondUnlessDeclined(v) == v \notin {"IGNORE", "STOP"}

\* line 387: shouldRespond !== "RESPOND" returns; only the exact token goes on
VerdictIsRespond(v) == v = "RESPOND"

\* the await that follows await a when a resolves ("returned" after the last)
AwaitAfter(a) ==
    CASE a = "fetchHomeTimeline" -> "composeState"
      [] a = "composeState" -> "getMemoryById"
      [] a = "sendTweet" -> "updateRecentMessageState"
      [] a = "updateRecentMessageState" -> "createMemory"
      [] a = "createMemory" -> "evaluate"
      [] a = "evaluate" -> "processActions"
      [] a = "processActions" -> "wait"
      [] a = "wait" -> "returned"

InitHT ==
    /\ handling = NoHandleInput
    /\ hAt = "idle"
    /\ hOutcome = "pending"
    /\ verdict = "none"
    /\ shouldRespondCalls = 0
    /\ generated = 0
    /\ sentTweets = 0
    /\ savedRequest = FALSE

\* lines 249-301: handleTweet({tweet, message, thread}) up to its first await.
\* Every call works on its own arguments: one call is modelled.
HandleTweet(i) ==
    /\ hAt = "idle"
    /\ handling' = i
    /\ IF StandaloneOwnTweet(i)
       THEN hAt' = "returned" /\ hOutcome' = "skipped"
       ELSE IF i.text = ""
            THEN hAt' = "returned" /\ hOutcome' = "ignored"
            ELSE /\ hAt' = IF i.cached THEN "composeState" ELSE "fetchHomeTimeline"
                 /\ hOutcome' = "pending"
    /\ UNCHANGED <<verdict, shouldRespondCalls, generated, sentTweets, savedRequest>>
    /\ UNCHANGED <<tpVars, rtVars, xtVars, btVars, postVars, egVars>>

\* lines 296-328 and 430-464: an await that yields nothing the handler
\* branches on resolves; after the last one (wait, 464) handleTweet returns
TweetAwaitResolves ==
    /\ hAt \in {"fetchHomeTimeline", "composeState", "sendTweet",
                "updateRecentMessageState", "createMemory", "evaluate",
                "processActions", "wait"}
    /\ hAt' = AwaitAfter(hAt)
    /\ hOutcome' = IF hAt = "wait" THEN "replied" ELSE hOutcome
    /\ UNCHANGED <<handling, verdict, shouldRespondCalls, generated, sentTweets,
                   savedRequest>>
    /\ UNCHANGED <<tpVars, rtVars, xtVars, btVars, postVars, egVars>>

\* lines 338-391: getMemoryById resolves; the post is saved when it has no
\* memory; then either the response is forced or generateShouldRespond is called
TweetExistsResolves(exists) ==
    /\ hAt = "getMemoryById"
    /\ savedRequest' = ~exists
    /\ IF ForcedRespond(handling)
       THEN /\ hAt' = "generateMessageResponse"
            /\ generated' = generated + 1
            /\ UNCHANGED shouldRespondCalls
       ELSE /\ hAt' = "generateShouldRespond"
            /\ shouldRespondCalls' = shouldRespondCalls + 1
            /\ UNCHANGED generated
    /\ UNCHANGED <<handling, hOutcome, verdict, sentTweets>>
    /\ UNCHANGED <<tpVars, rtVars, xtVars, btVars, postVars, egVars>>

\* lines 381-406: generateShouldRespond resolves with v
GenerateShouldRespondResolves(v) ==
    /\ hAt = "generateShouldRespond"
    /\ verdict' = v
    /\ IF VerdictIsRespond(v)
       THEN /\ hAt' = "generateMessageResponse"
            /\ generated' = generated + 1
            /\ UNCHANGED hOutcome
       ELSE /\ hAt' = "returned"
            /\ hOutcome' = "declined"
            /\ UNCHANGED generated
    /\ UNCHANGED <<handling, shouldRespondCalls, sentTweets, savedRequest>>
    /\ UNCHANGED <<tpVars, rtVars, xtVars, btVars, postVars, egVars>>

\* lines 402-430: generateMessageResponse resolves with text x; a text that is
\* non-empty after removeQuotes is sent with sendTweet
GenerateMessageResponseResolves(x) ==
    /\ hAt = "generateMessageResponse"
    /\ IF RemoveQuotes[x] # ""
       THEN /\ hAt' = "sendTweet"
            /\ sentTweets' = sentTweets + 1
            /\ UNCHANGED hOutcome
       ELSE /\ hAt' = "returned"
            /\ hOutcome' = "noText"
            /\ UNCHANGED sentTweets
    /\ UNCHANGED <<handling, verdict, shouldRespondCalls, generated, savedRequest>>
    /\ UNCHANGED <<tpVars, rtVars, xtVars, btVars, postVars, egVars>>

\* an awaited call rejects: before the try block (296-406) handleTweet rejects;
\* inside it (418-467) the catch logs and handleTweet returns
TweetAwaitRejects ==
    /\ hAt \notin {"idle", "returned"}
    /\ hAt' = "returned"
    /\ hOutcome' = IF \E k \in 1..Len(AwaitsInTry) : AwaitsInTry[k] = hAt
                   THEN "sendFailed"
                   ELSE "rejected"
    /\ UNCHANGED <<handling, verdict, shouldRespondCalls, generated, sentTweets,
                   savedRequest>>
    /\ UNCHANGED <<tpVars, rtVars, xtVars, btVars, postVars, egVars>>

NextHT ==
    \/ /\ hAt = "idle"
       /\ \E i \in HandleInputs : HandleTweet(i)
    \/ TweetAwaitResolves
    \/ \E exists \in BOOLEAN : TweetExistsResolves(exists)
    \/ \E v \in Verdicts : GenerateShouldRespondResolves(v)
    \/ \E x \in ResponseTexts : GenerateMessageResponseResolves(x)
    \/ TweetAwaitRejects

(***************************************************************************)
(* TwitterPostClient.processTweetActions: one post of the home timeline    *)
(***************************************************************************)

\* variant: an absent tag counts as requested
TruthyUnlessFalse(v) == v # "false"

\* lines 480, 491, 502, 524: if (actionResponse.<tag>)
Truthy(v) == v = "true"

\* line 510, 712: the status a sent post must have
StatusOk == 200

\* a call made on the wire client directly, as this.twitterClient.<method>(...),
\* not inside a task given to this.requestQueue.add
DirectCall(method) == [method |-> method, queued |-> FALSE]

\* the call on the wire client that is made on the way into await a
WireCallAt(a) ==
    IF a \in {"likeTweet", "retweet", "sendQuoteTweet", "sendTweet"}
    THEN <<DirectCall(a)>>
    ELSE <<>>

\* the secondary action (its index in SecondaryActions) await a belongs to
ActionOf(a) ==
    CHOOSE k \in 1..Len(SecondaryActions) :
        \E n \in 1..Len(ActionAwaits[SecondaryActions[k]]) :
            ActionAwaits[SecondaryActions[k]][n] = a

\* lines 480-532: the first await reached once the blocks of the first k
\* secondary actions are done: that of the next requested action, or the save
AwaitAfterAction(k, r) ==
    LET later == {j \in (k + 1)..Len(SecondaryActions) :
                      Truthy(r[SecondaryActions[j]])}
    IN  IF later = {}
        THEN "saveIncomingTweetToMemory"
        ELSE ActionAwaits[SecondaryActions[
                 CHOOSE j \in later : \A i \in later : j <= i]][1]

InitPA ==
    /\ pAt = "idle"
    /\ actionResponse = NoActionResponse
    /\ executedActions = <<>>
    /\ wireCalls = <<>>
    /\ results = <<>>
    /\ pOutcome = "pending"
    /\ handledRecord = FALSE
    /\ actedBefore = FALSE

\* lines 431-437: the loop body starts on a post of the home timeline, in the
\* first cycle that sees the post or in a later one that sees it again.
\* Every iteration has its own actionResponse and executedActions, every
\* cycle its own results: one iteration at a time is modelled.
ProcessTweet ==
    /\ pAt \in {"idle", "done"}
    /\ pAt' = "getMemoryById"
    /\ actionResponse' = NoActionResponse
    /\ executedActions' = <<>>
    /\ wireCalls' = <<>>
    /\ results' = <<>>
    /\ pOutcome' = "pending"
    /\ actedBefore' = (actedBefore \/ executedActions # <<>>)
    /\ UNCHANGED handledRecord
    /\ UNCHANGED <<tpVars, rtVars, xtVars, btVars, htVars, lpVars, egVars>>

\* lines 435-458: a post that has a memory is passed over
MemoryLookupResolves(found) ==
    /\ pAt = "getMemoryById"
    /\ found = handledRecord
    /\ IF found
       THEN pAt' = "done" /\ pOutcome' = "known"
       ELSE pAt' = "composeState" /\ UNCHANGED pOutcome
    /\ UNCHANGED <<actionResponse, executedActions, wireCalls, results>>
    /\ UNCHANGED <<handledRecord, actedBefore>>
    /\ UNCHANGED <<tpVars, rtVars, xtVars, btVars, htVars, lpVars, egVars>>

\* lines 447-469
TweetStateResolves ==
    /\ pAt = "composeState"
    /\ pAt' = "generateTweetActions"
    /\ UNCHANGED <<actionResponse, executedActions, wireCalls, results, pOutcome>>
    /\ UNCHANGED <<handledRecord, actedBefore>>
    /\ UNCHANGED <<tpVars, rtVars, xtVars, btVars, htVars, lpVars, egVars>>

\* lines 465-532: generateTweetActions resolves with r; without a response the
\* post is passed over, else the first requested action starts
GenerateTweetActionsResolves(r) ==
    /\ pAt = "generateTweetActions"
    /\ actionResponse' = r
    /\ IF r = NoActionResponse
       THEN /\ pAt' = "done"
            /\ pOutcome' = "noActions"
            /\ UNCHANGED wireCalls
       ELSE /\ pAt' = AwaitAfterAction(0, r)
            /\ wireCalls' = wireCalls \o WireCallAt(pAt')
            /\ UNCHANGED pOutcome
    /\ UNCHANGED <<executedActions, results>>
    /\ UNCHANGED <<handledRecord, actedBefore>>
    /\ UNCHANGED <<tpVars, rtVars, xtVars, btVars, htVars, lpVars, egVars>>

\* lines 482-484, 493-495: the like or the retweet went through
WireActionResolves ==
    /\ pAt \in {"likeTweet", "retweet"}
    /\ executedActions' = Append(executedActions, SecondaryActions[ActionOf(pAt)])
    /\ pAt' = AwaitAfterAction(ActionOf(pAt), actionResponse)
    /\ wireCalls' = wireCalls \o WireCallAt(pAt')
    /\ UNCHANGED <<actionResponse, results, pOutcome>>
    /\ UNCHANGED <<handledRecord, actedBefore>>
    /\ UNCHANGED <<tpVars, rtVars, xtVars, btVars, htVars, lpVars, egVars>>

\* lines 505-509, 705-711: generateTweetContent resolves and the post is sent
TweetContentResolves ==
    /\ pAt \in {"quoteContent", "replyContent"}
    /\ pAt' = ActionAwaits[SecondaryActions[ActionOf(pAt)]][2]
    /\ wireCalls' = wireCalls \o WireCallAt(pAt')
    /\ UNCHANGED <<actionResponse, executedActions, results, pOutcome>>
    /\ UNCHANGED <<handledRecord, actedBefore>>
    /\ UNCHANGED <<tpVars, rtVars, xtVars, btVars, htVars, lpVars, egVars>>

\* lines 509-517, 708-721: the send resolves with a response of that status
SendResolves(status) ==
    /\ pAt \in {"sendQuoteTweet", "sendTweet"}
    /\ IF status = StatusOk
       THEN /\ pAt' = ActionAwaits[SecondaryActions[ActionOf(pAt)]][3]
            /\ UNCHANGED wireCalls
       ELSE /\ pAt' = AwaitAfterAction(ActionOf(pAt), actionResponse)
            /\ wireCalls' = wireCalls \o WireCallAt(pAt')
    /\ UNCHANGED <<actionResponse, executedActions, results, pOutcome>>
    /\ UNCHANGED <<handledRecord, actedBefore>>
    /\ UNCHANGED <<tpVars, rtVars, xtVars, btVars, htVars, lpVars, egVars>>

\* lines 511-514, 714-718 (processTweetResponse, 635-701, never rejects)
ProcessTweetResponseResolves(success) ==
    /\ pAt \in {"quoteResponse", "replyResponse"}
    /\ executedActions' =
           IF success
           THEN Append(executedActions, SecondaryActions[ActionOf(pAt)])
           ELSE executedActions
    /\ pAt' = AwaitAfterAction(ActionOf(pAt), actionResponse)
    /\ wireCalls' = wireCalls \o WireCallAt(pAt')
    /\ UNCHANGED <<actionResponse, results, pOutcome>>
    /\ UNCHANGED <<handledRecord, actedBefore>>
    /\ UNCHANGED <<tpVars, rtVars, xtVars, btVars, htVars, lpVars, egVars>>

\* lines 485-487, 496-498, 518-520, 722-724: a call of a secondary action
\* rejects; its own catch logs and the next requested action starts
ActionAwaitRejects ==
    /\ pAt \in {"likeTweet", "retweet", "quoteContent", "sendQuoteTweet",
                "replyContent", "sendTweet"}
    /\ pAt' = AwaitAfterAction(ActionOf(pAt), actionResponse)
    /\ wireCalls' = wireCalls \o WireCallAt(pAt')
    /\ UNCHANGED <<actionResponse, executedActions, results, pOutcome>>
    /\ UNCHANGED <<handledRecord, actedBefore>>
    /\ UNCHANGED <<tpVars, rtVars, xtVars, btVars, htVars, lpVars, egVars>>

\* lines 532-538: saveIncomingTweetToMemory (727-761) never rejects: it
\* resolves with true once createMemory wrote the record of the post, and with
\* false when one of its awaits threw; line 532 drops the value
SaveIncomingTweetResolves(saved) ==
    /\ pAt = "saveIncomingTweetToMemory"
    /\ handledRecord' = (handledRecord \/ saved)
    /\ results' = Append(results, [parsedActions |-> actionResponse,
                                   executedActions |-> executedActions])
    /\ pAt' = "done"
    /\ pOutcome' = "processed"
    /\ UNCHANGED <<actionResponse, executedActions, wireCalls, actedBefore>>
    /\ UNCHANGED <<tpVars, rtVars, xtVars, btVars, htVars, lpVars, egVars>>

\* lines 545-548: getMemoryById, composeState or generateTweetActions rejects
LookupAwaitRejects ==
    /\ pAt \in {"getMemoryById", "composeState", "generateTweetActions"}
    /\ pAt' = "done"
    /\ pOutcome' = "failed"
    /\ UNCHANGED <<actionResponse, executedActions, wireCalls, results>>
    /\ UNCHANGED <<handledRecord, actedBefore>>
    /\ UNCHANGED <<tpVars, rtVars, xtVars, btVars, htVars, lpVars, egVars>>

NextPA ==
    \/ ProcessTweet
    \/ \E found \in BOOLEAN : MemoryLookupResolves(found)
    \/ TweetStateResolves
    \/ /\ pAt = "generateTweetActions"
       /\ \E r \in ActionResponses \cup {NoActionResponse} :
              GenerateTweetActionsResolves(r)
    \/ WireActionResolves
    \/ TweetContentResolves
    \/ \E status \in Statuses : SendResolves(status)
    \/ \E success \in BOOLEAN : ProcessTweetResponseResolves(success)
    \/ ActionAwaitRejects
    \/ \E saved \in BOOLEAN : SaveIncomingTweetResolves(saved)
    \/ LookupAwaitRejects

(***************************************************************************)
(* TwitterPostClient: the posting loop and the timeline loop               *)
(***************************************************************************)

\* the sequence q without its i-th element
RemoveAt(q, i) == SubSeq(q, 1, i - 1) \o SubSeq(q, i + 1, Len(q))

\* a time difference as the model keeps it: exact below MIN_PROCESS_INTERVAL
UpToInterval(t) == IF t > MIN_PROCESS_INTERVAL THEN MIN_PROCESS_INTERVAL ELSE t

\* lines 127-129, clearTimeout(this.timelineLoopTimeout): the pending timers left
TimersAfterClear ==
    IF timelineLoopTimeout = "pending"
    THEN SubSeq(timelineTimers, 1, Len(timelineTimers) - 1)
    ELSE timelineTimers

\* line 381: timeSinceLastProcess < this.MIN_PROCESS_INTERVAL
InCooldown == timeSinceLastProcess < MIN_PROCESS_INTERVAL

\* the suspended runs of a loop that can still settle
SettlingTweetRuns == tweetRuns - (IF stalled = "posting" THEN 1 ELSE 0)

InitLP ==
    /\ tweetLoopTimeout = "null"
    /\ tweetRuns = 0
    /\ unhandledRejections = {}
    /\ timelineLoopTimeout = "null"
    /\ timelineTimers = <<>>
    /\ isProcessing = FALSE
    /\ admittedRuns = 0
    /\ timeSinceLastProcess = MIN_PROCESS_INTERVAL
    /\ timeSinceLastDone = MIN_PROCESS_INTERVAL
    /\ readyCalls = 0
    /\ stalled = "none"

\* lines 126-160: onReady(postImmediately). Both handles are cleared,
\* generateNewTweet is called without await when postImmediately, the posting
\* timer is armed and the timeline timer is armed with initialTimelineDelay.
OnReady(postImmediately) ==
    /\ readyCalls < MaxReady
    /\ postImmediately => tweetRuns < MaxRuns
    /\ readyCalls' = readyCalls + 1
    /\ tweetRuns' = IF postImmediately THEN tweetRuns + 1 ELSE tweetRuns
    /\ tweetLoopTimeout' = "pending"
    /\ timelineTimers' = Append(TimersAfterClear, initialTimelineDelay)
    /\ timelineLoopTimeout' = "pending"
    /\ UNCHANGED <<unhandledRejections, isProcessing, timeSinceLastProcess,
                   timeSinceLastDone, stalled>>
    /\ UNCHANGED admittedRuns
    /\ UNCHANGED <<tpVars, rtVars, xtVars, btVars, htVars, paVars, egVars>>

\* lines 141-144: the posting timer fires: generateNewTweet() is called, not
\* awaited, and runs up to its first await; generateNewTweetLoop() re-arms
TweetTimerFires ==
    /\ tweetLoopTimeout = "pending"
    /\ tweetRuns < MaxRuns
    /\ tweetRuns' = tweetRuns + 1
    /\ tweetLoopTimeout' = "pending"
    /\ UNCHANGED <<unhandledRejections, timelineLoopTimeout, timelineTimers,
                   isProcessing, timeSinceLastProcess, timeSinceLastDone,
                   readyCalls, stalled>>
    /\ UNCHANGED admittedRuns
    /\ UNCHANGED <<tpVars, rtVars, xtVars, btVars, htVars, paVars, egVars>>

\* lines 162-367: a run of generateNewTweet gets to its end; a failure of the
\* send (310-367) is caught and logged
GenerateNewTweetReturns ==
    /\ SettlingTweetRuns > 0
    /\ tweetRuns' = tweetRuns - 1
    /\ UNCHANGED <<tweetLoopTimeout, unhandledRejections, timelineLoopTimeout,
                   timelineTimers, isProcessing, timeSinceLastProcess,
                   timeSinceLastDone, readyCalls, stalled>>
    /\ UNCHANGED admittedRuns
    /\ UNCHANGED <<tpVars, rtVars, xtVars, btVars, htVars, paVars, egVars>>

\* lines 165-264, 368-371: an awaited call before the send rejects; the outer
\* catch logs and throws again, so the promise of generateNewTweet() rejects,
\* and its callers (142, 150) neither await nor catch it
GenerateNewTweetRejects ==
    /\ SettlingTweetRuns > 0
    /\ tweetRuns' = tweetRuns - 1
    /\ unhandledRejections' = unhandledRejections \cup {"posting"}
    /\ UNCHANGED <<tweetLoopTimeout, timelineLoopTimeout, timelineTimers,
                   isProcessing, timeSinceLastProcess, timeSinceLastDone,
                   readyCalls, stalled>>
    /\ UNCHANGED admittedRuns
    /\ UNCHANGED <<tpVars, rtVars, xtVars, btVars, htVars, paVars, egVars>>

\* lines 374-411: the i-th timeline timer is due and fires.
\* generateNewTimelineTweetLoop returns in the cooldown, before its try; else
\* it calls processTweetActions, which returns at once when isProcessing (and
\* the finally re-arms with delay d), or takes the flag, sets lastProcessTime
\* and suspends at its first await
TimelineTimerFires(i, d) ==
    /\ i \in 1..Len(timelineTimers)
    /\ timelineTimers[i] = 0
    /\ timelineLoopTimeout' =
           IF InCooldown \/ ~isProcessing
           THEN IF i = Len(timelineTimers) /\ timelineLoopTimeout = "pending"
                THEN "fired"
                ELSE timelineLoopTimeout
           ELSE "pending"
    /\ IF InCooldown
       THEN /\ timelineTimers' = RemoveAt(timelineTimers, i)
            /\ UNCHANGED <<isProcessing, admittedRuns, timeSinceLastProcess>>
       ELSE IF isProcessing
            THEN /\ timelineTimers' = Append(RemoveAt(timelineTimers, i), d)
                 /\ UNCHANGED <<isProcessing, admittedRuns, timeSinceLastProcess>>
            ELSE /\ timelineTimers' = RemoveAt(timelineTimers, i)
                 /\ isProcessing' = TRUE
                 /\ admittedRuns' = admittedRuns + 1
                 /\ timeSinceLastProcess' = 0
    /\ UNCHANGED <<tweetLoopTimeout, tweetRuns, unhandledRejections,
                   timeSinceLastDone, readyCalls, stalled>>
    /\ UNCHANGED <<tpVars, rtVars, xtVars, btVars, htVars, paVars, egVars>>

\* lines 551-558, 388-400: processTweetActions returns its results; the flag is
\* released and the finally of the loop re-arms with delay d
ProcessTweetActionsReturns(d) ==
    /\ admittedRuns > 0
    /\ stalled # "timeline"
    /\ isProcessing' = FALSE
    /\ admittedRuns' = admittedRuns - 1
    /\ timeSinceLastDone' = 0
    /\ timelineTimers' = Append(timelineTimers, d)
    /\ timelineLoopTimeout' = "pending"
    /\ UNCHANGED <<tweetLoopTimeout, tweetRuns, unhandledRejections,
                   timeSinceLastProcess, readyCalls, stalled>>
    /\ UNCHANGED <<tpVars, rtVars, xtVars, btVars, htVars, paVars, egVars>>

\* variant: the flag is released on the normal return only
ProcessTweetActionsThrowsHoldingFlag(d) ==
    /\ admittedRuns > 0
    /\ stalled # "timeline"
    /\ UNCHANGED isProcessing
    /\ admittedRuns' = admittedRuns - 1
    /\ timelineTimers' = Append(timelineTimers, d)
    /\ timelineLoopTimeout' = "pending"
    /\ UNCHANGED <<tweetLoopTimeout, tweetRuns, unhandledRejections,
                   timeSinceLastProcess, timeSinceLastDone, readyCalls, stalled>>
    /\ UNCHANGED <<tpVars, rtVars, xtVars, btVars, htVars, paVars, egVars>>

\* lines 415-427, 553-558, 390-400: ensureUserExists, fetchHomeTimeline or the
\* cache write throws; processTweetActions releases the flag and throws again,
\* the loop catches, logs and re-arms with delay d
ProcessTweetActionsThrows(d) ==
    /\ admittedRuns > 0
    /\ stalled # "timeline"
    /\ isProcessing' = FALSE
    /\ admittedRuns' = admittedRuns - 1
    /\ timelineTimers' = Append(timelineTimers, d)
    /\ timelineLoopTimeout' = "pending"
    /\ UNCHANGED <<tweetLoopTimeout, tweetRuns, unhandledRejections,
                   timeSinceLastProcess, timeSinceLastDone, readyCalls, stalled>>
    /\ UNCHANGED <<tpVars, rtVars, xtVars, btVars, htVars, paVars, egVars>>

\* the next instants at which something changes: a timer gets due, or the time
\* since the last start or the last return reaches MIN_PROCESS_INTERVAL
Waits ==
    {timelineTimers[i] : i \in {j \in 1..Len(timelineTimers) : timelineTimers[j] > 0}}
        \cup {MIN_PROCESS_INTERVAL - t :
                  t \in {u \in {timeSinceLastProcess, timeSinceLastDone} :
                             u < MIN_PROCESS_INTERVAL}}

\* Date.now() and the timers: time passes up to the next such instant, once
\* the timers that are due have fired (their callbacks are not held up)
TimePasses ==
    /\ Waits # {}
    /\ \A i \in 1..Len(timelineTimers) : timelineTimers[i] > 0
    /\ LET d == CHOOSE x \in Waits : \A y \in Waits : x <= y
       IN  /\ timelineTimers' =
                  [i \in 1..Len(timelineTimers) |->
                      IF timelineTimers[i] > d THEN timelineTimers[i] - d ELSE 0]
           /\ timeSinceLastProcess' = UpToInterval(timeSinceLastProcess + d)
           /\ timeSinceLastDone' = UpToInterval(timeSinceLastDone + d)
    /\ UNCHANGED <<tweetLoopTimeout, tweetRuns, unhandledRejections,
                   timelineLoopTimeout, isProcessing, readyCalls, stalled>>
    /\ UNCHANGED admittedRuns
    /\ UNCHANGED <<tpVars, rtVars, xtVars, btVars, htVars, paVars, egVars>>

\* an awaited call of a collaborator (165, 415: ensureUserExists, a fetch, a
\* send) never settles: the run of loop l that waits for it stays suspended
Stall(l) ==
    /\ stalled = "none"
    /\ \/ l = "posting" /\ tweetRuns > 0
       \/ l = "timeline" /\ admittedRuns > 0
    /\ stalled' = l
    /\ UNCHANGED <<tweetLoopTimeout, tweetRuns, unhandledRejections,
                   timelineLoopTimeout, timelineTimers, isProcessing,
                   timeSinceLastProcess, timeSinceLastDone, readyCalls>>
    /\ UNCHANGED admittedRuns
    /\ UNCHANGED <<tpVars, rtVars, xtVars, btVars, htVars, paVars, egVars>>

NextLP ==
    \/ \E postImmediately \in BOOLEAN : OnReady(postImmediately)
    \/ TweetTimerFires
    \/ GenerateNewTweetReturns
    \/ GenerateNewTweetRejects
    \/ \E i \in 1..Len(timelineTimers), d \in TimelineDelays : TimelineTimerFires(i, d)
    \/ \E d \in TimelineDelays : ProcessTweetActionsReturns(d)
    \/ \E d \in TimelineDelays : ProcessTweetActionsThrows(d)
    \/ TimePasses
    \/ \E l \in PostLoops : Stall(l)

(***************************************************************************)
(* TwitterSearchClient and TwitterInteractionClient: their loops           *)
(***************************************************************************)

\* the calls of engage that are suspended
EngageRuns == searchTermRuns + followedRuns

InitEG ==
    /\ searchTimers = 0
    /\ isSearchTurn = FALSE
    /\ searchTermRuns = 0
    /\ followedRuns = 0
    /\ interactionTimers = 0
    /\ interactionRuns = 0

\* search.ts 78-96: startEngagementLoop, from onReady (73-76) or from its own
\* timer: engage() is called, not awaited, and runs up to its first await in
\* the function isSearchTurn selects; then the next timer is armed
StartEngagementLoop ==
    /\ EngageRuns < MaxRuns
    /\ searchTimers' = 1
    /\ IF isSearchTurn
       THEN searchTermRuns' = searchTermRuns + 1 /\ UNCHANGED followedRuns
       ELSE followedRuns' = followedRuns + 1 /\ UNCHANGED searchTermRuns
    /\ UNCHANGED <<isSearchTurn, interactionTimers, interactionRuns>>
    /\ UNCHANGED <<tpVars, rtVars, xtVars, btVars, htVars, paVars>>

\* search.ts 73-76: onReady of the search client, called once
SearchOnReady ==
    /\ searchTimers = 0
    /\ EngageRuns = 0
    /\ StartEngagementLoop
    /\ UNCHANGED lpVars

\* search.ts 80-83: the timer of startEngagementLoop fires
SearchTimerFires ==
    /\ searchTimers = 1
    /\ StartEngagementLoop
    /\ UNCHANGED lpVars

\* search.ts 87-95: the function engage awaits returns (it catches what its
\* try blocks cover, 377-379 and 550-552) and engage toggles isSearchTurn
EngageReturns(searchTerms) ==
    /\ IF searchTerms
       THEN /\ searchTermRuns > 0
            /\ stalled = "search" => EngageRuns > 1
            /\ searchTermRuns' = searchTermRuns - 1
            /\ UNCHANGED followedRuns
       ELSE /\ followedRuns > 0
            /\ stalled = "search" => EngageRuns > 1
            /\ followedRuns' = followedRuns - 1
            /\ UNCHANGED searchTermRuns
    /\ isSearchTurn' = ~isSearchTurn
    /\ UNCHANGED <<searchTimers, interactionTimers, interactionRuns>>
    /\ UNCHANGED <<tpVars, rtVars, xtVars, btVars, htVars, paVars>>
    /\ UNCHANGED lpVars

\* search.ts 402-410: the fetchProfileFollowing task rejects (or resolves
\* without profiles) before the try of engageWithFollowedAccounts: engage
\* rejects without toggling, and startEngagementLoop neither awaits nor catches
EngageRejects ==
    /\ followedRuns > 0
    /\ stalled = "search" => EngageRuns > 1
    /\ followedRuns' = followedRuns - 1
    /\ unhandledRejections' = unhandledRejections \cup {"search"}
    /\ UNCHANGED <<searchTimers, isSearchTurn, searchTermRuns, interactionTimers,
                   interactionRuns>>
    /\ UNCHANGED <<tweetLoopTimeout, tweetRuns, timelineLoopTimeout, timelineTimers,
                   isProcessing, admittedRuns, timeSinceLastProcess,
                   timeSinceLastDone, readyCalls, stalled>>
    /\ UNCHANGED <<tpVars, rtVars, xtVars, btVars, htVars, paVars>>

\* index.ts 120-127: handleTwitterInteractionsLoop, from onReady (119-128, called
\* once) or from its own timer: handleTwitterInteractions() is called, not
\* awaited, and runs up to its first await; then the next timer is armed
HandleTwitterInteractionsLoop ==
    /\ interactionRuns < MaxRuns
    /\ interactionTimers = 0 => interactionRuns = 0
    /\ interactionRuns' = interactionRuns + 1
    /\ interactionTimers' = 1
    /\ UNCHANGED <<searchTimers, isSearchTurn, searchTermRuns, followedRuns>>
    /\ UNCHANGED <<tpVars, rtVars, xtVars, btVars, htVars, paVars>>
    /\ UNCHANGED lpVars

\* index.ts 136-247: handleTwitterInteractions gets to its end, or an awaited
\* call rejects and the catch around its whole body logs
HandleTwitterInteractionsReturns ==
    /\ interactionRuns > (IF stalled = "interaction" THEN 1 ELSE 0)
    /\ interactionRuns' = interactionRuns - 1
    /\ UNCHANGED <<searchTimers, isSearchTurn, searchTermRuns, followedRuns,
                   interactionTimers>>
    /\ UNCHANGED <<tpVars, rtVars, xtVars, btVars, htVars, paVars>>
    /\ UNCHANGED lpVars

\* an awaited call of a collaborator never settles: the run of loop l that
\* waits for it stays suspended
StallEngage(l) ==
    /\ stalled = "none"
    /\ \/ l = "search" /\ EngageRuns > 0
       \/ l = "interaction" /\ interactionRuns > 0
    /\ stalled' = l
    /\ UNCHANGED <<tweetLoopTimeout, tweetRuns, unhandledRejections,
                   timelineLoopTimeout, timelineTimers, isProcessing, admittedRuns,
                   timeSinceLastProcess, timeSinceLastDone, readyCalls>>
    /\ UNCHANGED <<tpVars, rtVars, xtVars, btVars, htVars, paVars, egVars>>

NextEG ==
    \/ SearchOnReady
    \/ SearchTimerFires
    \/ \E searchTerms \in BOOLEAN : EngageReturns(searchTerms)
    \/ EngageRejects
    \/ HandleTwitterInteractionsLoop
    \/ HandleTwitterInteractionsReturns
    \/ \E l \in EngageLoops : StallEngage(l)

(***************************************************************************)
(* The delays the loops are re-armed with                                  *)
(***************************************************************************)

\* Math.random() yields r / RandomScale for an r of RandomSource: 0.00 ... 0.99
RandomSource == 0..(RandomScale - 1)

\* post.ts 135-136
minMinutes == 25

maxMinutes == 35

InitRD ==
    /\ randomMinutes = Null
    /\ randomTimelineMinutes = Null
    /\ interactionMinutes = Null

\* post.ts 134-139: generateNewTweetLoop chooses the delay of the posting timer
GenerateNewTweetLoopDelay(r) ==
    /\ randomMinutes' = RandomMinutes(r, maxMinutes - minMinutes + 1, minMinutes)
    /\ UNCHANGED <<randomTimelineMinutes, interactionMinutes>>
    /\ UNCHANGED <<ifVars, trVars, ixVars, seVars>>
    /\ UNCHANGED <<tpVars, rtVars, btVars, htVars, postVars, egVars>>

\* post.ts 392-398: the finally of generateNewTimelineTweetLoop chooses the
\* delay of the next timeline timer
TimelineLoopDelay(r) ==
    /\ randomTimelineMinutes' = RandomMinutes(r, 30 - 15 + 1, 15)
    /\ UNCHANGED <<randomMinutes, interactionMinutes>>
    /\ UNCHANGED <<ifVars, trVars, ixVars, seVars>>
    /\ UNCHANGED <<tpVars, rtVars, btVars, htVars, postVars, egVars>>

\* index.ts 123-126: handleTwitterInteractionsLoop chooses the delay of its
\* next timer
InteractionsLoopDelay(r) ==
    /\ interactionMinutes' = RandomMinutes(r, 40 - 30 + 1, 2)
    /\ UNCHANGED <<randomMinutes, randomTimelineMinutes>>
    /\ UNCHANGED <<ifVars, trVars, ixVars, seVars>>
    /\ UNCHANGED <<tpVars, rtVars, btVars, htVars, postVars, egVars>>

NextRD ==
    \/ \E r \in RandomSource : GenerateNewTweetLoopDelay(r)
    \/ \E r \in RandomSource : TimelineLoopDelay(r)
    \/ \E r \in RandomSource : InteractionsLoopDelay(r)

(***************************************************************************)
(* truncateToCompleteSentence                                              *)
(***************************************************************************)

\* post.ts 84
MAX_TWEET_LENGTH == 240

\* the longest ending of an argument that is tried with every character
MaxTail == 3

\* a letter, the period and the space
Chars == {"a", ".", " "}

\* n letters
Letters(n) == [i \in 1..n |-> "a"]

\* the strings of Chars of length up to n
StringsUpTo(n) == UNION {[1..k -> Chars] : k \in 0..n}

\* the arguments: any first character or none, then no letters or about
\* MAX_TWEET_LENGTH of them, then any ending of up to MaxTail characters
TruncateInputs ==
    {head \o Letters(n) \o tail :
        head \in StringsUpTo(1),
        n \in {0} \cup ((MAX_TWEET_LENGTH - 5)..MAX_TWEET_LENGTH),
        tail \in StringsUpTo(MaxTail)}

\* String.prototype.lastIndexOf(ch, fromIndex) for a single character ch: the
\* last index (from 0) at or before fromIndex where ch stands, or -1
LastIndexOf(str, ch, fromIndex) ==
    LET found == {i \in 0..(Len(str) - 1) : i <= fromIndex /\ str[i + 1] = ch}
    IN  IF found = {} THEN -1 ELSE CHOOSE i \in found : \A j \in found : j <= i

\* String.prototype.slice(0, end): a negative end counts from the end of str
SliceTo(str, end) ==
    LET to == IF end < 0
              THEN (IF Len(str) + end < 0 THEN 0 ELSE Len(str) + end)
              ELSE (IF end > Len(str) THEN Len(str) ELSE end)
    IN  SubSeq(str, 1, to)

\* String.prototype.trim()
Trim(str) ==
    LET inked == {i \in 1..Len(str) : str[i] # " "}
    IN  IF inked = {}
        THEN <<>>
        ELSE SubSeq(str, CHOOSE i \in inked : \A j \in inked : i <= j,
                         CHOOSE i \in inked : \A j \in inked : j <= i)

Ellipsis == <<".", ".", ".">>

\* post.ts 86-106 (the same function as src/unnamed/part_002 54-84)
truncateToCompleteSentence(str) ==
    LET truncatedAtPeriod == SliceTo(str, LastIndexOf(str, ".", MAX_TWEET_LENGTH) + 1)
        truncatedAtSpace == SliceTo(str, LastIndexOf(str, " ", MAX_TWEET_LENGTH))
    IN  IF Len(str) <= MAX_TWEET_LENGTH THEN str
        ELSE IF Len(Trim(truncatedAtPeriod)) > 0 THEN Trim(truncatedAtPeriod)
        ELSE IF Len(Trim(truncatedAtSpace)) > 0
             THEN Trim(truncatedAtSpace) \o Ellipsis
        ELSE Trim(SliceTo(str, MAX_TWEET_LENGTH - 3)) \o Ellipsis

InitTR ==
    /\ text = <<>>
    /\ truncated = <<>>

\* the call of truncateToCompleteSentence (post.ts 308) with the text str;
\* every call works on its own argument: one call is modelled
TruncateCall(str) ==
    /\ text = <<>>
    /\ text' = str
    /\ truncated' = truncateToCompleteSentence(str)
    /\ UNCHANGED <<ifVars, rdVars, ixVars, seVars>>
    /\ UNCHANGED <<tpVars, rtVars, btVars, htVars, postVars, egVars>>

NextTR == \E str \in TruncateInputs : TruncateCall(str)

(***************************************************************************)
(* TwitterInteractionClient.handleTwitterInteractions: one candidate post  *)
(* over the polling cycles                                                 *)
(***************************************************************************)

\* polling cycles that are followed
MaxCycles == 3

Cycles == 1..MaxCycles

\* parseInt(tweet.id) of the candidate post
CandidateId == 1

\* index.ts 173-176: the post counts as new
NewerThanLastChecked(id) == lastCheckedTweetId = Null \/ id > lastCheckedTweetId

InitIX ==
    /\ lastCheckedTweetId = Null
    /\ cycleAt = [c \in Cycles |-> "idle"]
    /\ replies = 0

\* index.ts 120-127, 136-146: the loop calls handleTwitterInteractions without
\* awaiting it, from onReady or when its timer fires, whether or not the cycle
\* before has ended; the cycle suspends at fetchSearchTweets
InteractionCycleStarts(c) ==
    /\ cycleAt[c] = "idle"
    /\ \A b \in Cycles : b < c => cycleAt[b] # "idle"
    /\ cycleAt' = [cycleAt EXCEPT ![c] = "fetchSearchTweets"]
    /\ UNCHANGED <<lastCheckedTweetId, replies>>
    /\ UNCHANGED <<ifVars, rdVars, trVars, seVars>>
    /\ UNCHANGED <<tpVars, rtVars, btVars, htVars, postVars, egVars>>

\* index.ts 140-190: the search resolves, with the candidate among its posts
\* (and kept by the filter) or not; a candidate that counts as new is handled
FetchSearchTweetsResolves(c, listed) ==
    /\ cycleAt[c] = "fetchSearchTweets"
    /\ cycleAt' = [cycleAt EXCEPT ![c] =
                       IF listed /\ NewerThanLastChecked(CandidateId)
                       THEN "ensureConnection"
                       ELSE "done"]
    /\ UNCHANGED <<lastCheckedTweetId, replies>>
    /\ UNCHANGED <<ifVars, rdVars, trVars, seVars>>
    /\ UNCHANGED <<tpVars, rtVars, btVars, htVars, postVars, egVars>>

\* index.ts 184-205: ensureConnection resolves, then buildConversationThread,
\* and handleTweet is called and suspends at an await before its sendTweet
CycleAwaitResolves(c) ==
    /\ cycleAt[c] \in {"ensureConnection", "buildConversationThread"}
    /\ cycleAt' = [cycleAt EXCEPT ![c] =
                       IF cycleAt[c] = "ensureConnection"
                       THEN "buildConversationThread"
                       ELSE "handleTweet"]
    /\ UNCHANGED <<lastCheckedTweetId, replies>>
    /\ UNCHANGED <<ifVars, rdVars, trVars, seVars>>
    /\ UNCHANGED <<tpVars, rtVars, btVars, htVars, postVars, egVars>>

\* index.ts 418-425: handleTweet sends its reply to the candidate
HandleTweetSends(c) ==
    /\ cycleAt[c] = "handleTweet"
    /\ cycleAt' = [cycleAt EXCEPT ![c] = "sendTweet"]
    /\ replies' = replies + 1
    /\ UNCHANGED lastCheckedTweetId
    /\ UNCHANGED <<ifVars, rdVars, trVars, seVars>>
    /\ UNCHANGED <<tpVars, rtVars, btVars, htVars, postVars, egVars>>

\* index.ts 201-208: handleTweet returns, after its reply (and what follows
\* it, whose failures its catch logs, 465-467) or without one (269, 279, 390,
\* 413); only now the id of the post is written to lastCheckedTweetId
HandleTweetReturns(c) ==
    /\ cycleAt[c] \in {"handleTweet", "sendTweet"}
    /\ cycleAt' = [cycleAt EXCEPT ![c] = "done"]
    /\ lastCheckedTweetId' = CandidateId
    /\ UNCHANGED replies
    /\ UNCHANGED <<ifVars, rdVars, trVars, seVars>>
    /\ UNCHANGED <<tpVars, rtVars, btVars, htVars, postVars, egVars>>

\* index.ts 244-246: an awaited call rejects (in handleTweet: one before its
\* try); the catch around the body of the cycle logs and the cycle ends
CycleAwaitRejects(c) ==
    /\ cycleAt[c] \in {"fetchSearchTweets", "ensureConnection",
                        "buildConversationThread", "handleTweet"}
    /\ cycleAt' = [cycleAt EXCEPT ![c] = "done"]
    /\ UNCHANGED <<lastCheckedTweetId, replies>>
    /\ UNCHANGED <<ifVars, rdVars, trVars, seVars>>
    /\ UNCHANGED <<tpVars, rtVars, btVars, htVars, postVars, egVars>>

NextIX ==
    \E c \in Cycles :
        \/ InteractionCycleStarts(c)
        \/ \E listed \in BOOLEAN : FetchSearchTweetsResolves(c, listed)
        \/ CycleAwaitResolves(c)
        \/ HandleTweetSends(c)
        \/ HandleTweetReturns(c)
        \/ CycleAwaitRejects(c)

(***************************************************************************)
(* TwitterSearchClient: the replies of the two engagement modes            *)
(***************************************************************************)

\* replies to one post that are followed
MaxSent == 2

\* what an action of an engagement run leaves alone
EngageRest ==
    <<searchTimers, searchTermRuns, followedRuns, interactionTimers, interactionRuns,
      ifVars, rdVars, trVars, ixVars, tpVars, rtVars, btVars, htVars, postVars>>

\* search.ts 438-448: the filter of engageWithFollowedAccounts, for a post of a
\* followed account that is neither by the agent nor a reply to it
ValidTweet(t) == t \notin respondedTweets

InitSE ==
    /\ respondedTweets = {}
    /\ engageAt = "idle"
    /\ selectedTweet = NoTweet
    /\ engageReplies = [t \in Tweets |-> 0]

\* search.ts 86-93, 98-110, 382-384: engage calls the function isSearchTurn
\* names, which suspends at its first await; one run at a time is followed
EngageStarts ==
    /\ engageAt \in {"idle", "done"}
    /\ engageAt' = "selecting"
    /\ selectedTweet' = NoTweet
    /\ UNCHANGED <<respondedTweets, engageReplies, isSearchTurn>>
    /\ UNCHANGED EngageRest

\* search.ts 176-202 (search terms: the post whose id generateText names, of
\* the search results and the home timeline, unless it is by the agent) and
\* 438-457 (followed accounts: a random one of validTweets); without a post
\* the function returns and engage toggles isSearchTurn (95)
EngageSelects(t) ==
    /\ engageAt = "selecting"
    /\ t \in Tweets /\ ~isSearchTurn => ValidTweet(t)
    /\ selectedTweet' = t
    /\ IF t = NoTweet
       THEN engageAt' = "done" /\ isSearchTurn' = ~isSearchTurn
       ELSE engageAt' = "responding" /\ UNCHANGED isSearchTurn
    /\ UNCHANGED <<respondedTweets, engageReplies>>
    /\ UNCHANGED EngageRest

\* search.ts 332-344, 527-537: the response was generated and the callback
\* calls sendTweet with the id of the selected post
EngageSendsTweet ==
    /\ engageAt = "responding"
    /\ engageReplies[selectedTweet] < MaxSent
    /\ engageAt' = "sendTweet"
    /\ engageReplies' =
           [engageReplies EXCEPT ![selectedTweet] = engageReplies[selectedTweet] + 1]
    /\ UNCHANGED <<respondedTweets, selectedTweet, isSearchTurn>>
    /\ UNCHANGED EngageRest

\* search.ts 344-346 and 537-545: the callback resolves.
\* engageWithFollowedAccounts adds the post to respondedTweets at once (538) and
\* returns after its wait; engageWithSearchTerms goes on to more awaits
SendTweetResolves ==
    /\ engageAt = "sendTweet"
    /\ IF isSearchTurn
       THEN /\ engageAt' = "afterSend"
            /\ UNCHANGED <<respondedTweets, isSearchTurn>>
       ELSE /\ engageAt' = "done"
            /\ respondedTweets' = respondedTweets \cup {selectedTweet}
            /\ isSearchTurn' = ~isSearchTurn
    /\ UNCHANGED <<selectedTweet, engageReplies>>
    /\ UNCHANGED EngageRest

\* search.ts 346-373: the awaits after the send are through;
\* engageWithSearchTerms adds the post to respondedTweets (368) and returns
EngageAddsResponded ==
    /\ engageAt = "afterSend"
    /\ engageAt' = "done"
    /\ respondedTweets' = respondedTweets \cup {selectedTweet}
    /\ isSearchTurn' = ~isSearchTurn
    /\ UNCHANGED <<selectedTweet, engageReplies>>
    /\ UNCHANGED EngageRest

\* search.ts 374-379, 547-552: an awaited call rejects; a catch of the
\* function logs, the function returns and engage toggles isSearchTurn
EngageAwaitRejects ==
    /\ engageAt \in {"selecting", "responding", "sendTweet", "afterSend"}
    /\ engageAt' = "done"
    /\ isSearchTurn' = ~isSearchTurn
    /\ UNCHANGED <<respondedTweets, selectedTweet, engageReplies>>
    /\ UNCHANGED EngageRest

NextSE ==
    \/ EngageStarts
    \/ \E t \in Tweets \cup {NoTweet} : EngageSelects(t)
    \/ EngageSendsTweet
    \/ SendTweetResolves
    \/ EngageAddsResponded
    \/ EngageAwaitRejects

(***************************************************************************)
(* TwitterClientInterface.stop                                             *)
(***************************************************************************)

InitIF == stopCalled = FALSE

\* index.ts 22-24: stop logs a warning and returns; it reaches no client
\* object, so no timer handle is cleared
TwitterStop ==
    /\ ~stopCalled
    /\ stopCalled' = TRUE
    /\ UNCHANGED <<rdVars, trVars, ixVars, seVars>>
    /\ UNCHANGED <<tpVars, rtVars, btVars, htVars, postVars, egVars>>

NextIF == TwitterStop

(***************************************************************************)
(* Specifications                                                          *)
(***************************************************************************)
Init ==
    /\ InitTP /\ InitRT /\ InitBT /\ InitHT /\ InitPA /\ InitLP /\ InitEG
    /\ InitIF /\ InitRD /\ InitTR /\ InitIX /\ InitSE

Next ==
    \/ NextTP \/ NextRT \/ NextMsg \/ NextBT \/ NextHT \/ NextPA \/ NextLP \/ NextEG
    \/ NextIF \/ NextRD \/ NextTR \/ NextIX \/ NextSE

\* the processing client alone, driven by arbitrary deliveries
InitProcessing == Init /\ urlValid = TRUE

SpecTP == InitProcessing /\ [][NextTP]_vars

\* the realtime client and its wrapper alone
InitRealtime == Init /\ throwingListeners = {}

SpecRT == InitRealtime /\ [][NextRT]_vars

\* SpecRT with the scheduling the runtime and the claim's hypothesis give: a
\* pending timer fires, a closing socket delivers its close event, and a server
\* that eventually accepts lets one of the repeated connection attempts open
FairSpecRT ==
    /\ SpecRT
    /\ WF_vars(\E t \in TimerIds : TimerFire(t))
    /\ WF_vars(\E s \in Sockets : sock[s] = "CLOSING" /\ SocketClose(s))
    /\ SF_vars(\E s \in Sockets, sendOk \in BOOLEAN : SocketOpen(s, sendOk))

\* the realtime client receiving frames
SpecMsg == InitRealtime /\ [][NextMsg]_vars

\* buildConversationThread alone, called with any leaf, depth, reply graph and memory
InitTwitter == Init /\ urlValid = TRUE /\ throwingListeners = {}

SpecThread == InitTwitter /\ [][NextBT]_vars

\* SpecThread where every awaited call of a collaborator settles
FairSpecThread == SpecThread /\ WF_vars(ThreadContinues)

\* handleTweet alone, called on any post, thread and text
SpecTweet == InitTwitter /\ [][NextHT]_vars

\* the handling of one post of the home timeline, with any action response
SpecActions == InitTwitter /\ [][NextPA]_vars

\* the two loops of the post client, with onReady called at any time
SpecPost == InitTwitter /\ [][NextLP]_vars

\* SpecPost with the scheduling the runtime gives: time passes, a due timer
\* fires, and an awaited call settles unless it is the stalled one
FairSpecPost ==
    /\ SpecPost
    /\ WF_vars(TimePasses)
    /\ WF_vars(TweetTimerFires)
    /\ WF_vars(\E i \in 1..Len(timelineTimers), d \in TimelineDelays :
                   TimelineTimerFires(i, d))
    /\ WF_vars(GenerateNewTweetReturns \/ GenerateNewTweetRejects)
    /\ WF_vars(\E d \in TimelineDelays :
                   ProcessTweetActionsReturns(d) \/ ProcessTweetActionsThrows(d))

\* the loops of the search and the interaction client
SpecEngage == InitTwitter /\ [][NextEG]_vars

\* the four scheduled loops together
SpecLoops == InitTwitter /\ [][NextLP \/ NextEG]_vars

\* the posting and the timeline loop, and a stop of the client at any moment
SpecShutdown == InitTwitter /\ [][NextLP \/ NextIF]_vars

\* the delays of the loops, for every value of the random source
SpecDelays == InitTwitter /\ [][NextRD]_vars

\* truncateToCompleteSentence, called with any of the arguments
SpecTruncate == InitTwitter /\ [][NextTR]_vars

\* the polling cycles of the interaction client over one candidate post
SpecInteractions == InitTwitter /\ [][NextIX]_vars

\* the engagement runs of the search client, one after the other
SpecSearch == InitTwitter /\ [][NextSE]_vars

Spec == Init /\ [][Next]_vars

(***************************************************************************)
(* Claims about TokenProcessingClient, checked under SpecTP.               *)
(***************************************************************************)

\* C1: for every token key at most one handler execution is in flight at any
\* time, and a delivery that was not admitted has run nothing of the handler
\* body: no LLM call, no memory write, no event.
C1_AtMostOneHandlerPerKey ==
    /\ \A k \in TokenIds :
          Cardinality({c \in Calls : InFlight(c) /\ tokenId[c] = k}) <= 1
    /\ \A c \in Calls :
          (pc[c] = "returned" /\ ~admitted[c]) =>
              /\ llmCalls[c] = 0
              /\ memWrites[c] = 0
              /\ emitted[c] = <<>>
              /\ outcome[c] = "resolved"

\* C1 witness: a delivery of k was dropped while an earlier delivery of k is in flight
C1_Witness ==
    \E c1, c2 \in Calls :
        /\ c1 # c2
        /\ InFlight(c1)
        /\ tokenId[c2] = tokenId[c1]
        /\ pc[c2] = "returned"
        /\ ~admitted[c2]

\* C2: the guard holds exactly the keys of the handlers that are executing (an
\* entry is removed however the handler ends), and a delivery of a key that no
\* executing handler holds is admitted.
C2_GuardNeverLeaked ==
    /\ [](processingTokens = {tokenId[c] : c \in {d \in Calls : InFlight(d)}})
    /\ [][\A c \in Calls, k \in TokenIds :
            ( /\ ProcessTokenUpdate(c, [hasRecord |-> TRUE, token_id |-> k])
              /\ \A d \in Calls : ~(InFlight(d) /\ tokenId[d] = k) )
            => (admitted'[c] /\ InFlight(c)' /\ k \in processingTokens')]_vars

\* C2 witness: a handler ended the worst way (a step failed and the
\* processingError listener threw) and its key is free again
C2_Witness ==
    \E c \in Calls :
        /\ pc[c] = "returned"
        /\ admitted[c]
        /\ stepFailed[c]
        /\ outcome[c] = "rejected"
        /\ tokenId[c] \notin processingTokens

\* C3: a delivery rejected because its key is in flight leaves processingTokens
\* unchanged, and the handler that holds the key keeps holding it.
C3_RejectHasNoEffectOnGuard ==
    /\ [](\A c \in Calls : InFlight(c) => tokenId[c] \in processingTokens)
    /\ [][\A c \in Calls, u \in Updates :
            ( /\ ProcessTokenUpdate(c, u)
              /\ ~MissingTokenId(u)
              /\ AlreadyProcessing(u.token_id) )
            => processingTokens' = processingTokens]_vars

\* C3 witness: the first handler is well past the guard, a second delivery of its
\* key has been rejected, and the key is still held
C3_Witness ==
    \E c1, c2 \in Calls :
        /\ c1 # c2
        /\ pc[c1] = "generateText"
        /\ tokenId[c2] = tokenId[c1]
        /\ pc[c2] = "returned"
        /\ ~admitted[c2]
        /\ tokenId[c1] \in processingTokens

\* C4: every admitted delivery resolves normally and emits exactly one event:
\* processingError when a step of the handler failed, processingComplete
\* otherwise.
C4_ExactlyOneEventNeverRejects ==
    \A c \in Calls :
        (pc[c] = "returned" /\ admitted[c]) =>
            /\ outcome[c] = "resolved"
            /\ emitted[c] = IF stepFailed[c] THEN <<"processingError">>
                                             ELSE <<"processingComplete">>

(***************************************************************************)
(* Claims about TokenUpdateClient and SupabaseClientWrapper.               *)
(***************************************************************************)

\* the connection state of the specification, read off the client's fields
ConnState ==
    IF isConnected THEN "CONNECTED"
    ELSE IF ws # Null /\ sock[ws] = "CONNECTING" THEN "CONNECTING"
    ELSE "DISCONNECTED"

\* a step in which connect() creates a socket
ConnectStarted == \E s \in Sockets : sock[s] # "CONNECTING" /\ sock'[s] = "CONNECTING"

\* C5: the connection state moves only DISCONNECTED -> CONNECTING -> CONNECTED
\* and back to DISCONNECTED on close (or on a failed attempt); the client is
\* CONNECTED only on a current socket that has opened; and no connect attempt is
\* started while the client is CONNECTING or CONNECTED.
C5_ConnectionStateMachine ==
    /\ [](isConnected => (ws # Null /\ sock[ws] \in {"OPEN", "CLOSING"}))
    /\ [][ \/ ConnState' = ConnState
           \/ <<ConnState, ConnState'>> \in
                 {<<"DISCONNECTED", "CONNECTING">>, <<"CONNECTING", "CONNECTED">>,
                  <<"CONNECTED", "DISCONNECTED">>, <<"CONNECTING", "DISCONNECTED">>}
         ]_vars
    /\ [][ConnectStarted => ConnState = "DISCONNECTED"]_vars

\* C6: once stopped (and until start() is called again) no heartbeat interval and
\* no reconnect timer is pending and no connection attempt is made.
C6_StaysTornDownAfterStop ==
    /\ [](~initialized => (intervals = {} /\ timeouts = {}))
    /\ [][(~initialized /\ ~initialized') => ~ConnectStarted]_vars

\* C7 as stated: after n >= 1 start() calls with no stop() in between, connect()
\* has been invoked by start() exactly once.
C7_StartInvokesConnectOnce == starts >= 1 => connectsFromStart = 1

\* C7 amended: start() on an initialized wrapper changes nothing, so connect() is
\* invoked exactly once when it does not throw; when connect() throws (the url is
\* rejected) start() leaves the wrapper uninitialized, every one of the n calls
\* invokes connect(), and the client state is what a single start() leaves.
C7_StartIdempotentOnceStarted ==
    /\ [](starts >= 1 =>
            /\ initialized = urlValid
            /\ connectsFromStart = IF initialized THEN 1 ELSE starts)
    /\ [](~urlValid => (ws = Null /\ ~isConnected /\ timeouts = {} /\ intervals = {}))
    /\ [][(Start /\ initialized) =>
            UNCHANGED <<ws, sock, isConnected, heartbeatInterval, intervals,
                        reconnectTimeout, timeouts, joined, initialized,
                        connectsFromStart>>]_vars

\* C7 witness: a second start() was called on the started wrapper
C7_Witness == starts = 2 /\ initialized /\ connectsFromStart = 1 /\ ws # Null

\* C8: the message handler emits tokenUpdate if and only if the frame's event is
\* postgres_changes, its change type is UPDATE and record.processing_stage is
\* completed.
C8_ForwardedIffCompletedUpdate ==
    /\ (lastMsg = NoMessage => ~forwarded)
    /\ (lastMsg # NoMessage =>
          (forwarded <=> ( /\ lastMsg.event = "postgres_changes"
                           /\ lastMsg.type = "UPDATE"
                           /\ lastMsg.stage = "completed" )))

\* C8 witness: a completed UPDATE was forwarded
C8_Witness ==
    /\ forwarded
    /\ lastMsg.event = "postgres_changes"
    /\ lastMsg.type = "UPDATE"
    /\ lastMsg.stage = "completed"

C10_HeartbeatFailureForcesDisconnect ==
    [][\A i \in TimerIds :
         (HeartbeatTick(i, FALSE) /\ ws # Null /\ sock[ws] = "OPEN") =>
             ( /\ ~isConnected'
               /\ heartbeatInterval' = Null
               /\ timeouts' # {}
               /\ hb' # "threw" )]_vars

\* C11: an error event on the client's socket performs the reconnect transition
\* in the error handler itself, with no close event delivered: the client is
\* DISCONNECTED (isConnected false), the heartbeat is cleared and a reconnect
\* timer is pending.
C11_ErrorTriggersReconnect ==
    [][\A s \in Sockets :
         (SocketError(s) /\ s = ws) =>
             ( /\ ~isConnected'
               /\ heartbeatInterval' = Null
               /\ intervals' = {}
               /\ timeouts' # {} )]_vars

\* C12: whenever the client is CONNECTED the join request has been sent on its
\* current socket, and the step that makes it CONNECTED is the step that sends
\* the join (before any heartbeat tick of that connection); a failed join send
\* does not leave the client CONNECTED.
C12_ConnectedImpliesJoined ==
    /\ [](isConnected => (ws # Null /\ ws \in joined))
    /\ [][(~isConnected /\ isConnected') => (ws' # Null /\ ws' \in joined')]_vars

(***************************************************************************)
(* Further claims about TokenProcessingClient, checked under SpecTP.       *)
(***************************************************************************)

\* C13: an update with no record, or whose record has no token_id, is
\* discarded: the call returns normally in its first step, adds no entry to
\* processingTokens, and makes no LLM call, no memory write and no event.
C13_MissingIdDiscarded ==
    [][\A c \in Calls, u \in Updates :
         ( /\ ProcessTokenUpdate(c, u)
           /\ (~u.hasRecord \/ u.token_id \notin TokenIds) )
         => ( /\ pc'[c] = "returned"
              /\ outcome'[c] = "resolved"
              /\ ~admitted'[c]
              /\ processingTokens' = processingTokens
              /\ llmCalls'[c] = 0
              /\ memWrites'[c] = 0
              /\ emitted'[c] = <<>> )]_vars

\* C13 witness: an update without token_id was discarded while a handler of a
\* real key is in flight, whose guard entry is the only one
C13_Witness ==
    \E c1, c2 \in Calls :
        /\ pc[c1] = "returned"
        /\ tokenId[c1] = Undefined
        /\ outcome[c1] = "resolved"
        /\ emitted[c1] = <<>>
        /\ InFlight(c2)
        /\ processingTokens = {tokenId[c2]}

\* C14: a memory entry is written only for a response that parses as JSON and
\* carries summary, metrics, insights and patterns; any other response writes
\* no memory, emits processingError and releases the key, so that a later
\* update (of the same key too) is admitted.
C14_MalformedAnalysisHandled ==
    /\ [][\A c \in Calls :
            (pc[c] = "generateText" /\ pc'[c] # "generateText") =>
                IF memWrites'[c] > memWrites[c]
                THEN /\ memWrites'[c] = 1
                     /\ emitted'[c] = <<>>
                     /\ \E r \in Responses :
                           r.json /\ r.fields = RequiredFields
                               /\ GenerateTextResolves(c, r)
                     /\ ~\E r \in Responses :
                           ~(r.json /\ r.fields = RequiredFields)
                               /\ GenerateTextResolves(c, r)
                ELSE /\ memWrites'[c] = 0
                     /\ emitted'[c] = <<"processingError">>
                     /\ pc'[c] = "returned"
                     /\ tokenId[c] \notin processingTokens']_vars
    /\ [][\A c \in Calls :
            memWrites'[c] > memWrites[c] => pc[c] = "generateText"]_vars
    /\ [][\A c, d \in Calls, k \in TokenIds :
            ( /\ pc[c] = "returned" /\ admitted[c] /\ memWrites[c] = 0
              /\ llmCalls[c] = 1 /\ tokenId[c] = k
              /\ \A e \in Calls : ~(InFlight(e) /\ tokenId[e] = k)
              /\ ProcessTokenUpdate(d, [hasRecord |-> TRUE, token_id |-> k]) )
            => (admitted'[d] /\ pc'[d] = "ensureRoomExists")]_vars

\* C14 witness: a handler ended on a malformed response (one LLM call, no memory
\* write, processingError) and a later update of the same key has been
\* processed up to its memory write
C14_Witness ==
    \E c1, c2 \in Calls :
        /\ c1 # c2
        /\ pc[c1] = "returned"
        /\ admitted[c1]
        /\ llmCalls[c1] = 1
        /\ memWrites[c1] = 0
        /\ emitted[c1] = <<"processingError">>
        /\ tokenId[c2] = tokenId[c1]
        /\ pc[c2] = "createMemory"
        /\ memWrites[c2] = 1

(***************************************************************************)
(* Claims about buildConversationThread, checked under SpecThread.         *)
(***************************************************************************)

\* the call has ended, by returning the thread or by rejecting
ThreadEnded == at \in {"returned", "rejected"}

\* the elements of a sequence
Range(q) == {q[i] : i \in 1..Len(q)}

\* no element occurs twice in q
NoDuplicates(q) == \A i, j \in 1..Len(q) : q[i] = q[j] => i = j

\* q in reverse order
Reverse(q) == [i \in 1..Len(q) |-> q[Len(q) + 1 - i]]

\* the nearest n ancestors of post t in the reply graph, root-most first,
\* stopping where the chain ends or comes back to a post in seen
RECURSIVE AncestorsOf(_, _, _)
AncestorsOf(t, n, seen) ==
    IF n = 0 \/ inReplyToStatusId[t] = NoTweet \/ inReplyToStatusId[t] \in seen
    THEN <<>>
    ELSE LET p == inReplyToStatusId[t]
         IN  Append(AncestorsOf(p, n - 1, seen \cup {p}), p)

\* C15: buildConversationThread always terminates, whatever the reply graph
\* (cycles such as A -> B -> A included), and makes at most maxDepth + 1 parent
\* fetch attempts (the walk in fact never makes more than maxDepth).
C15_ThreadWalkTerminates ==
    /\ [](fetchAttempts <= maxReplies + 1)
    /\ [](fetchAttempts <= maxReplies)
    /\ (at \in ThreadAwaits ~> ThreadEnded)

\* C15 witness: the walk of a leaf whose parent replies back to the leaf
\* (A -> B -> A) has returned after fetching the parent
C15_Witness ==
    /\ at = "returned"
    /\ maxReplies >= 2
    /\ inReplyToStatusId[tweet] # NoTweet
    /\ inReplyToStatusId[tweet] # tweet
    /\ inReplyToStatusId[inReplyToStatusId[tweet]] = tweet
    /\ fetchedParents = <<inReplyToStatusId[tweet]>>

\* C16: a returned thread holds no post twice, is no longer than the maximum
\* depth, is ordered root-first with the leaf last, and every element after
\* the first is the reply to the element before it.
C16_ThreadWellFormed ==
    at = "returned" =>
        /\ NoDuplicates(thread)
        /\ Len(thread) <= maxReplies
        /\ thread # <<>> => thread[Len(thread)] = tweet
        /\ \A i \in 2..Len(thread) : inReplyToStatusId[thread[i]] = thread[i - 1]

\* C16 witness: a thread was returned for a leaf whose parent was fetched
C16_Witness ==
    /\ at = "returned"
    /\ fetchedParents # <<>>
    /\ thread # <<>>
    /\ thread[Len(thread)] = tweet

\* C17: when every fetch succeeds the returned thread is the leaf preceded by
\* its nearest min(maxDepth, number of ancestors) ancestors, root-first: for
\* the chain A <- B <- C with leaf C, [A, B, C] when maxDepth = 5 and [B, C]
\* when maxDepth = 1.
C17_NearestAncestorsReturned ==
    (at = "returned" /\ fetchFailure = "none" /\ maxReplies >= 1) =>
        thread = Append(AncestorsOf(tweet, maxReplies, {tweet}), tweet)

\* C18: when a parent fetch throws or yields nothing the walk stops and the
\* call returns the thread accumulated so far, root-first (the posts fetched
\* before the failure, then the leaf); no exception reaches the caller.
C18_FetchFailureReturnsPartial ==
    /\ [](fetchFailure # "none" =>
            /\ at = "returned"
            /\ thread = Reverse(fetchedParents) \o <<tweet>>)
    /\ [][(GetTweetRejects \/ GetTweetResolvesNothing) =>
            (at' = "returned" /\ thread' = thread)]_vars

\* C18 witness: the fetch of the leaf's parent threw and the thread holding
\* the leaf was returned
C18_Witness ==
    /\ at = "returned"
    /\ fetchFailure = "threw"
    /\ inReplyToStatusId[tweet] # NoTweet
    /\ thread = <<tweet>>

\* C19: every post the walk visits (the leaf and every fetched parent) is
\* looked up in memory; a post that has a record is not fetched and gets no
\* memory write; a memory write is made only for posts with no record.
C19_RecordedPostsSkipped ==
    at = "returned" =>
        /\ \A t \in visited \cup Range(fetchedParents) : t \in lookedUp
        /\ \A t \in Range(fetchedParents) : t \notin recorded
        /\ \A t \in Range(created) : t \notin recorded
        /\ NoDuplicates(created)

(***************************************************************************)
(* Claims about handleTweet, checked under SpecTweet.                      *)
(***************************************************************************)

\* C20: for a standalone post of the agent itself (written by the agent, no
\* parent, thread of length 1) handleTweet stops at once: generateShouldRespond
\* is never called and no reply is generated or sent.
C20_OwnStandaloneSkipped ==
    /\ []((handling.fromAgent /\ ~handling.hasParent /\ handling.threadLength = 1) =>
            /\ hAt = "returned"
            /\ hOutcome = "skipped"
            /\ shouldRespondCalls = 0
            /\ generated = 0
            /\ sentTweets = 0
            /\ ~savedRequest)
    /\ [][\A i \in HandleInputs :
            (HandleTweet(i) /\ i.fromAgent /\ ~i.hasParent /\ i.threadLength = 1)
            => hAt' = "returned"]_vars

\* C20 witness: a standalone own post with text, which counts as being in the
\* agent's thread (so a response would otherwise be forced), was skipped
C20_Witness ==
    /\ hAt = "returned"
    /\ hOutcome = "skipped"
    /\ handling.fromAgent
    /\ handling.threadLength = 1
    /\ handling.inBotThread
    /\ handling.text = "gm"

\* the text holds the stop keyword in some letter case
HasStopKeyword(x) == x \in {"stop", "STOP", "pls Stop now"}

\* the call is past the point where the decision is taken (lines 376-391)
PastDecision ==
    hAt \in {"generateMessageResponse", "sendTweet", "updateRecentMessageState",
             "createMemory", "evaluate", "processActions", "wait"}
        \/ hOutcome \in {"declined", "noText", "replied", "sendFailed"}

C22_StopKeywordDefersToVerdict ==
    /\ []((handling.inBotThread /\ HasStopKeyword(handling.text)) =>
            /\ PastDecision => shouldRespondCalls = 1
            /\ generated >= 1 => verdict = "RESPOND"
            /\ sentTweets >= 1 => verdict = "RESPOND"
            /\ (verdict \notin {"none", "RESPOND"}) =>
                  (hOutcome = "declined" /\ generated = 0 /\ sentTweets = 0))
    /\ [][\A v \in Verdicts :
            (GenerateShouldRespondResolves(v) /\ handling.inBotThread /\ v = "RESPOND")
            => (hAt' = "generateMessageResponse" /\ generated' = 1)]_vars

\* C22 witness: the text is STOP in capitals, the post is in the agent's
\* thread, the verdict asked for was RESPOND and the reply is being sent
C22_Witness ==
    /\ handling.inBotThread
    /\ handling.text = "STOP"
    /\ shouldRespondCalls = 1
    /\ verdict = "RESPOND"
    /\ hAt = "sendTweet"

\* C23: when generateShouldRespond is consulted, a reply is generated and sent
\* only when its token is exactly RESPOND; IGNORE, STOP and every other token
\* (null, the empty string, another spelling) all end the call with no reply.
C23_OnlyRespondTokenReplies ==
    /\ shouldRespondCalls <= 1
    /\ (shouldRespondCalls = 1 /\ generated >= 1) => verdict = "RESPOND"
    /\ (shouldRespondCalls = 1 /\ sentTweets >= 1) => verdict = "RESPOND"
    /\ (verdict \notin {"none", "RESPOND"}) =>
          /\ hAt = "returned"
          /\ hOutcome = "declined"
          /\ generated = 0
          /\ sentTweets = 0

\* C23 witness: the collaborator returned no token (null) and the call ended
\* as for IGNORE
C23_Witness ==
    /\ verdict = "null"
    /\ shouldRespondCalls = 1
    /\ hOutcome = "declined"
    /\ sentTweets = 0

(***************************************************************************)
(* The secondary actions of the timeline loop                              *)
(***************************************************************************)

\* the secondary action a method of the wire client carries out
MethodAction ==
    [likeTweet |-> "like", retweet |-> "retweet", sendQuoteTweet |-> "quote",
     sendTweet |-> "reply"]

\* the secondary actions of which the wire call was made
CalledActions == {MethodAction[wireCalls[n].method] : n \in 1..Len(wireCalls)}

\* C24: for a timeline post, the wire call of a secondary action (like, retweet,
\* quote, reply) is made only if its tag is true in the action response: with a
\* false or absent tag, or without a response, no call is made.  executedActions
\* grows only by an action that was requested and whose call was made, and only
\* in the step where that call went through: the like or retweet resolved, or
\* the sent quote or reply had status 200 and its response was processed.
C24_OnlyRequestedActionsExecuted ==
    /\ [](/\ \A a \in CalledActions : actionResponse[a] = "true"
          /\ \A n \in 1..Len(executedActions) :
                 /\ actionResponse[executedActions[n]] = "true"
                 /\ executedActions[n] \in CalledActions
          /\ actionResponse = NoActionResponse
                 => wireCalls = <<>> /\ executedActions = <<>>)
    /\ [][Len(executedActions') > Len(executedActions) =>
             /\ executedActions' =
                    Append(executedActions, SecondaryActions[ActionOf(pAt)])
             /\ \/ pAt \in {"likeTweet", "retweet"} /\ WireActionResolves
                \/ /\ pAt \in {"quoteResponse", "replyResponse"}
                   /\ ProcessTweetResponseResolves(TRUE)]_vars

\* a post was processed with like and reply requested, retweet absent and quote
\* false: the like and the reply were executed and nothing else was called
C24_Witness ==
    /\ pOutcome = "processed"
    /\ actionResponse =
           [like |-> "true", retweet |-> Undefined, quote |-> "false",
            reply |-> "true"]
    /\ executedActions = <<"like", "reply">>
    /\ CalledActions = {"like", "reply"}

(***************************************************************************)
(* The scheduled loops                                                     *)
(***************************************************************************)

\* the runs of the body of loop l that are suspended
RunsOf(l) ==
    CASE l = "posting" -> tweetRuns
      [] l = "timeline" -> IF isProcessing THEN 1 ELSE 0
      [] l = "search" -> EngageRuns
      [] l = "interaction" -> interactionRuns

\* loop l has a timer pending
TimerPending(l) ==
    CASE l = "posting" -> tweetLoopTimeout = "pending"
      [] l = "timeline" -> timelineTimers # <<>>
      [] l = "search" -> searchTimers > 0
      [] l = "interaction" -> interactionTimers > 0

\* loop l was started by onReady
Started(l) ==
    CASE l \in PostLoops -> readyCalls > 0
      [] l = "search" -> searchTimers > 0
      [] l = "interaction" -> interactionTimers > 0

\* C25: no scheduled loop (posting, search engagement, interaction polling,
\* timeline actions) ever has two runs of its own body in progress at once: a
\* run that is still suspended when the re-armed timer fires is not entered a
\* second time.
C25_NoConcurrentRuns == \A l \in Loops : RunsOf(l) <= 1

\* C26: every loop is re-armed after every run: once a loop is started, and
\* whether its body succeeded, failed, or was skipped by the re-entrancy flag
\* or by the cooldown check, a next timer is pending for it, or its body is
\* still in progress and re-arms when it settles.
C26_RearmedAfterEveryRun ==
    \A l \in Loops : Started(l) => TimerPending(l) \/ (l = "timeline" /\ isProcessing)

\* C27: any two successful completions of processTweetActions are at least
\* MIN_PROCESS_INTERVAL apart, whatever the timer delays and however early the
\* loop is triggered.
C27_CompletionsCooldownApart ==
    [][(\E d \in TimelineDelays : ProcessTweetActionsReturns(d))
           => timeSinceLastDone >= MIN_PROCESS_INTERVAL]_vars

\* C28: if a run of one loop stalls forever at an await, the timer of the other
\* loop still fires again and again and its body runs.
C28_StallDoesNotBlockOthers ==
    /\ <>[](stalled = "posting") =>
           []<>(<<\E i \in 1..Len(timelineTimers), d \in TimelineDelays :
                      TimelineTimerFires(i, d) /\ isProcessing'>>_vars)
    /\ <>[](stalled = "timeline") => []<>(<<TweetTimerFires>>_vars)

\* C29: no rejection of a collaborator call leaves a loop body: the promise
\* the body returned to the timer callback is never rejected unhandled.
C29_FailuresCaughtAtLoopBoundary == unhandledRejections = {}

\* C30: every call made on the wire client (like, retweet, quote, reply) runs
\* inside a task of the request queue.
C30_WireCallsQueued == \A n \in 1..Len(wireCalls) : wireCalls[n].queued

(***************************************************************************)
(* The timeline post seen again                                            *)
(***************************************************************************)

\* C31: a timeline post that has a handled record is passed over with no
\* action executed, and once a cycle has executed an action on a post, no
\* later cycle that sees the post again makes a call of an action on it.
C31_RescanExecutesNoAction ==
    /\ pOutcome = "known" => wireCalls = <<>> /\ executedActions = <<>>
    /\ actedBefore => wireCalls = <<>> /\ executedActions = <<>>

(***************************************************************************)
(* Shutdown                                                                *)
(***************************************************************************)

\* the timer of a loop fires and the loop body starts
LoopBodyStarts ==
    \/ TweetTimerFires
    \/ \E i \in 1..Len(timelineTimers), d \in TimelineDelays : TimelineTimerFires(i, d)
    \/ SearchTimerFires
    \/ interactionTimers > 0 /\ HandleTwitterInteractionsLoop

\* C32: once TwitterClientInterface.stop was called, no timer of a loop
\* (posting, search engagement, interaction polling, timeline actions) is
\* pending and no loop body starts; only what was already running finishes.
C32_StopCancelsTimers ==
    /\ [](stopCalled => \A l \in Loops : ~TimerPending(l))
    /\ [][stopCalled => ~LoopBodyStarts]_vars

(***************************************************************************)
(* The windows of the delays                                               *)
(***************************************************************************)

\* C33: every delay chosen for the posting loop is a whole number of minutes
\* from 25 to 35, and every delay chosen for the timeline loop after a run is a
\* whole number of minutes from 15 to 30, whatever the random source yields.
C33_DelaysInsideWindows ==
    /\ randomMinutes # Null => randomMinutes \in 25..35
    /\ randomTimelineMinutes # Null => randomTimelineMinutes \in 15..30

\* both loops were re-armed with the longest delay of their window
C33_Witness == randomMinutes = 35 /\ randomTimelineMinutes = 30

\* C35: every delay handleTwitterInteractionsLoop passes to setTimeout is at
\* least 2 and at most 5 minutes, whatever the random source yields.
C35_InteractionDelayWindow ==
    interactionMinutes # Null => interactionMinutes \in 2..5

(***************************************************************************)
(* The flag of the timeline loop                                           *)
(***************************************************************************)

\* C34: isProcessing is true exactly when one execution of processTweetActions
\* is between taking the flag and its end: the flag is false again after the
\* return and after the exception of an admitted run, and a call that returns
\* because the flag is set leaves the flag of the running execution set.
C34_FlagExact ==
    /\ admittedRuns <= 1
    /\ isProcessing <=> admittedRuns = 1

\* an execution has held the flag for the whole cooldown, and a call that
\* found the flag set has just returned and re-armed with the longest delay
C34_Witness ==
    /\ isProcessing
    /\ admittedRuns = 1
    /\ timeSinceLastProcess = MIN_PROCESS_INTERVAL
    /\ timelineTimers # <<>>
    /\ timelineTimers[Len(timelineTimers)] = 30

(***************************************************************************)
(* The length of a truncated text                                          *)
(***************************************************************************)

\* C36: whatever the text, what truncateToCompleteSentence returns has at most
\* MAX_TWEET_LENGTH characters, and a text of at most MAX_TWEET_LENGTH
\* characters is returned as it is.
C36_TruncatedFits ==
    /\ Len(truncated) <= MAX_TWEET_LENGTH
    /\ Len(text) <= MAX_TWEET_LENGTH => truncated = text

(***************************************************************************)
(* The connection flag and the sockets                                     *)
(***************************************************************************)

\* the sockets that are connecting or open
LiveSockets == {s \in Sockets : sock[s] \in {"CONNECTING", "OPEN"}}

\* C37: under every interleaving of start, stop, reconnect timers and socket
\* events, isConnected is true only while this.ws holds a socket that opened
\* and whose close event has not arrived, it is true whenever the socket in
\* this.ws is open, and at most one socket is connecting or open.
C37_FlagMatchesSocket ==
    /\ isConnected => ws # Null /\ sock[ws] \in {"OPEN", "CLOSING"}
    /\ ws # Null /\ sock[ws] = "OPEN" => isConnected
    /\ Cardinality(LiveSockets) <= 1

(***************************************************************************)
(* The agent's own posts                                                   *)
(***************************************************************************)

\* C38: for a post whose author is the agent itself, its own replies inside a
\* thread it owns included, handleTweet sends no reply.
C38_NoReplyToOwnPost == handling.fromAgent => sentTweets = 0

(***************************************************************************)
(* Replies to one post                                                     *)
(***************************************************************************)

\* C39: over all polling cycles of handleTwitterInteractions, those that
\* overlap included, at most one reply is sent to a given post.
C39_AtMostOneReply == replies <= 1

(***************************************************************************)
(* Replies of the search client                                            *)
(***************************************************************************)

\* C40: once a post is in respondedTweets, whichever engagement mode added
\* it, no engagement run of either mode sends another reply to it.
C40_NoReplyToRespondedTweet ==
    [][\A t \in Tweets :
           engageReplies'[t] > engageReplies[t] => t \notin respondedTweets]_vars

====
